---- MODULE Spec2Model ----
(***************************************************************************)
(* A model of sqlserver_3nf_audit.py: the sampling planner, the            *)
(* determinant selector, the key finder, the FD discoverer with its        *)
(* minimization, and the 2NF/3NF analyzer.                                 *)
(*                                                                         *)
(* Numbers.  The program computes ratios and percentages in binary         *)
(* floating point.  The model keeps every ratio as an exact fraction       *)
(* <<num, den>> (den > 0) and compares fractions exactly; for the counts   *)
(* met here (below 2^31) two different fractions differ by far more than   *)
(* a double's rounding error, so the comparisons agree with the program's. *)
(***************************************************************************)
EXTENDS Integers, Sequences, FiniteSets, TLC

VARIABLES
    pc,                 \* which stage of the per-table pipeline has run
    total_rows,         \* TableProfile.row_count
    sample_clause,      \* TableProfile.sample_clause
    columns,            \* TableProfile.columns (list of ColumnProfile)
    determinant_pool,   \* TableProfile.determinant_pool
    table,              \* the rows of the audited table, in the database
    todo,               \* what the running enumeration has still to measure
    keys,               \* KeyFinder: the key candidates
    measured,           \* FDDiscoverer.discover: the list `fds` before _minimize
    fds,                \* the accepted FDs (the result of discover)
    overrides,          \* CONFIG["OVERRIDES"], as it applies to this table
    normalization,      \* the result of NormalizationAnalyzer.analyze
    proposals,          \* the result of ProposalBuilder.build
    report,             \* what write_report wrote for the table, None before
    client,             \* the methods of the client object the components are given
    scope,              \* CONFIG["SCOPE"]
    tables,             \* Runner.run: the result of list_tables
    cursor,             \* Runner.run: the index in `tables` of the next table
    outcomes,           \* Runner.run: how the body of the loop ended for each table
    manifest,           \* ArtifactWriter.manifest["tables"]
    summary_rows,       \* ArtifactWriter.summary_rows
    warnings,           \* the [WARN] lines printed for key and FD tests that raised
    exception           \* the exception that left Profiler.profile_table, if one did

vars == <<pc, total_rows, sample_clause, columns, determinant_pool, table, todo,
          keys, measured, fds, overrides, normalization, proposals, report,
          client, scope, tables, cursor, outcomes, manifest, summary_rows, warnings,
          exception>>

\* The variables of the proposal builder and the report, and of the runner.
written == <<proposals, report>>
run == <<client, scope, tables, cursor, outcomes, manifest, summary_rows>>

\* Optional[...]: None, or Some(x) holding x.
None == <<>>
Some(x) == <<x>>

----------------------------------------------------------------------------
(* Exact fractions                                                          *)

Rat(n, d) == <<n, d>>

\* The sign of n1/d1 - n2/d2, by the continued-fraction expansion: no product
\* is formed, so counts in the millions do not overflow.
RECURSIVE CmpFrac(_, _, _, _)
CmpFrac(n1, d1, n2, d2) ==
    LET q1 == n1 \div d1
        q2 == n2 \div d2
        r1 == n1 % d1
        r2 == n2 % d2
    IN  IF q1 < q2 THEN -1
        ELSE IF q1 > q2 THEN 1
        ELSE IF r1 = 0 /\ r2 = 0 THEN 0
        ELSE IF r1 = 0 THEN -1
        ELSE IF r2 = 0 THEN 1
        ELSE CmpFrac(d2, r2, d1, r1)

\* CmpFrac is for non-negative numerators; a score may be negative.
RatCmp(a, b) ==
    IF a[1] < 0 /\ b[1] >= 0 THEN -1
    ELSE IF a[1] >= 0 /\ b[1] < 0 THEN 1
    ELSE IF a[1] < 0 THEN CmpFrac(-b[1], b[2], -a[1], a[2])
    ELSE CmpFrac(a[1], a[2], b[1], b[2])
RatLe(a, b) == RatCmp(a, b) <= 0
RatLt(a, b) == RatCmp(a, b) < 0
RatEq(a, b) == RatCmp(a, b) = 0
RatMax(a, b) == IF RatLt(a, b) THEN b ELSE a
RatMin(a, b) == IF RatLt(b, a) THEN b ELSE a

\* sorted(...) / list.sort(...): Python's sort is stable.  less[i][j] says
\* that the key of s[i] is smaller than the key of s[j]; an element goes behind
\* the elements with a smaller key and behind the earlier elements with an equal
\* key.
StableSort(s, less) ==
    LET before == [i \in 1..Len(s) |->
                      {j \in 1..Len(s) : less[j][i] \/ (~less[i][j] /\ j < i)}]
        place == [i \in 1..Len(s) |-> Cardinality(before[i]) + 1]
    IN  [p \in 1..Len(s) |-> s[CHOOSE i \in 1..Len(s) : place[i] = p]]

\* seq[:n]
Take(seq, n) == SubSeq(seq, 1, IF Len(seq) < n THEN Len(seq) ELSE n)

Range(seq) == {seq[i] : i \in 1..Len(seq)}

\* f"{x:.4f}": x rounded to four decimals (ties to even), as <<integer part,
\* the four decimals>>.
Format4(x) ==
    LET d  == x[2]
        q  == x[1] \div d
        t1 == (x[1] % d) * 10
        t2 == (t1 % d) * 10
        t3 == (t2 % d) * 10
        t4 == (t3 % d) * 10
        d4 == t4 \div d
        r4 == t4 % d
        frac == (t1 \div d) * 1000 + (t2 \div d) * 100 + (t3 \div d) * 10 + d4
        up == IF 2 * r4 > d \/ (2 * r4 = d /\ d4 % 2 = 1) THEN 1 ELSE 0
        total == q * 10000 + frac + up
    IN  <<total \div 10000, total % 10000>>

----------------------------------------------------------------------------
(* CONFIG["SAMPLING"] and build_sample_clause                               *)

FULL_SCAN_MAX_ROWS == 2000000
SAMPLE_TARGET_ROWS == 200000
SAMPLE_MIN_PCT == Rat(2, 10)
SAMPLE_MAX_PCT == Rat(2, 1)

\* The empty string.
EmptyClause == <<>>
\* f"TABLESAMPLE ({pct:.4f} PERCENT)"
TableSample(pct) == <<"TABLESAMPLE", Format4(pct), "PERCENT">>

\* A slip: `<` for `<=` in the full-scan test.
build_sample_clause_strict(rows) ==
    IF rows < FULL_SCAN_MAX_ROWS
    THEN EmptyClause
    ELSE TableSample(RatMax(SAMPLE_MIN_PCT,
                            RatMin(Rat(SAMPLE_TARGET_ROWS * 100, rows), SAMPLE_MAX_PCT)))

\* A slip: the ratio is not turned into a percentage.
build_sample_clause_ratio(rows) ==
    IF rows <= FULL_SCAN_MAX_ROWS
    THEN EmptyClause
    ELSE TableSample(RatMax(SAMPLE_MIN_PCT,
                            RatMin(Rat(SAMPLE_TARGET_ROWS, rows), SAMPLE_MAX_PCT)))

build_sample_clause(rows) ==
    IF rows <= FULL_SCAN_MAX_ROWS
    THEN EmptyClause
    ELSE TableSample(RatMax(SAMPLE_MIN_PCT,
                            RatMin(Rat(SAMPLE_TARGET_ROWS * 100, rows), SAMPLE_MAX_PCT)))

----------------------------------------------------------------------------
(* The sampling planner on its own: Profiler.profile_table's first two      *)
(* statements, for a row count drawn from RowCounts.                        *)

Spread == 5

\* The row counts at which the percentage reaches SAMPLE_MAX_PCT and SAMPLE_MIN_PCT.
RowsAtMaxPct == (SAMPLE_TARGET_ROWS * 100 * SAMPLE_MAX_PCT[2]) \div SAMPLE_MAX_PCT[1]
RowsAtMinPct == (SAMPLE_TARGET_ROWS * 100 * SAMPLE_MIN_PCT[2]) \div SAMPLE_MIN_PCT[1]

RowCounts ==
    {0, 1, 1000000000, 2000000000}
    \cup UNION {(c - Spread)..(c + Spread) : c \in {FULL_SCAN_MAX_ROWS, RowsAtMaxPct, RowsAtMinPct}}
    \cup {k * 1000000 : k \in 1..20}
    \cup {k * 10000000 : k \in 1..20}

\* CONFIG["OVERRIDES"] with nothing configured for the table: .get(fq) gives None
\* for FORCE_KEY and [] for FORCE_INCLUDE_COLUMNS.
NoOverrides == [FORCE_KEY |-> None, FORCE_INCLUDE_COLUMNS |-> <<>>]
\* No analysis has run yet.
NoNormalization ==
    [working_key |-> <<>>, prime_columns |-> {}, second_nf_issues |-> <<>>,
     third_nf_issues |-> <<>>]

NoTable ==
    /\ columns = <<>>
    /\ determinant_pool = <<>>
    /\ table = <<>>
NoMeasurements ==
    /\ todo = <<>>
    /\ keys = <<>>
    /\ measured = <<>>
    /\ fds = <<>>
\* class SqlServerClient: the methods it defines.
SqlServerClient == {"execute", "fetch_value"}
\* CONFIG["SCOPE"] as the source sets it.
NoScope ==
    [INCLUDE_SCHEMAS |-> None, EXCLUDE_SCHEMAS |-> None, INCLUDE_TABLES |-> None,
     EXCLUDE_TABLES |-> None, TABLE_ALLOWLIST |-> None]
\* No run of the runner: one table, handed to the components directly.
NoRun ==
    /\ client = SqlServerClient
    /\ scope = NoScope
    /\ tables = <<>>
    /\ cursor = 1
    /\ outcomes = <<>>
    /\ manifest = <<>>
    /\ summary_rows = <<>>
NoOutput ==
    /\ proposals = <<>>
    /\ report = None
    /\ warnings = <<>>
    /\ exception = None
NoAnalysis ==
    /\ overrides = NoOverrides
    /\ normalization = NoNormalization
    /\ NoOutput
    /\ NoRun

InitSample ==
    /\ pc = "rowcount"
    /\ total_rows \in RowCounts
    /\ sample_clause = EmptyClause
    /\ NoTable /\ NoMeasurements /\ NoAnalysis

\* Profiler._sample_clause, as profile_table calls it on the row count.
_sample_clause ==
    /\ pc = "rowcount"
    /\ sample_clause' = build_sample_clause(total_rows)
    /\ pc' = "planned"
    /\ UNCHANGED <<total_rows, columns, determinant_pool, table, todo, keys,
                   measured, fds, overrides, normalization>>
    /\ UNCHANGED <<written, run, warnings, exception>>

NextSample == _sample_clause
SpecSample == InitSample /\ [][NextSample]_vars

\* The percentage of a TABLESAMPLE clause, in ten-thousandths.
Pct4(clause) == clause[2][1] * 10000 + clause[2][2]
Pct4Of(x) == Format4(x)[1] * 10000 + Format4(x)[2]

\* C6: the clause is empty iff N <= FULL_SCAN_MAX_ROWS; otherwise it is
\* TABLESAMPLE (pct PERCENT) with pct = SAMPLE_TARGET_ROWS / N * 100 clamped to
\* [SAMPLE_MIN_PCT, SAMPLE_MAX_PCT], so SAMPLE_MIN_PCT <= pct <= SAMPLE_MAX_PCT.
C6_SampleClauseClamped ==
    pc = "planned" =>
        /\ (sample_clause = EmptyClause) <=> (total_rows <= FULL_SCAN_MAX_ROWS)
        /\ total_rows > FULL_SCAN_MAX_ROWS =>
              LET x == Rat(SAMPLE_TARGET_ROWS * 100, total_rows)
                  clamped == IF RatLt(x, SAMPLE_MIN_PCT) THEN SAMPLE_MIN_PCT
                             ELSE IF RatLt(SAMPLE_MAX_PCT, x) THEN SAMPLE_MAX_PCT
                             ELSE x
              IN  /\ sample_clause = <<"TABLESAMPLE", Format4(clamped), "PERCENT">>
                  /\ Pct4Of(SAMPLE_MIN_PCT) <= Pct4(sample_clause)
                  /\ Pct4(sample_clause) <= Pct4Of(SAMPLE_MAX_PCT)

\* A sampled table whose percentage lies strictly between the two limits.
C6_Witness ==
    /\ pc = "planned"
    /\ total_rows > FULL_SCAN_MAX_ROWS
    /\ sample_clause # EmptyClause
    /\ Pct4Of(SAMPLE_MIN_PCT) < Pct4(sample_clause)
    /\ Pct4(sample_clause) < Pct4Of(SAMPLE_MAX_PCT)

\* C7 as stated: 1,000,000 rows -> empty clause, 10,000,000 rows ->
\* TABLESAMPLE (2.0000 PERCENT), 100,000,000 rows -> TABLESAMPLE (2.0000 PERCENT).
C7_AsStated ==
    pc = "planned" =>
        /\ total_rows = 1000000 => sample_clause = EmptyClause
        /\ total_rows = 10000000 => sample_clause = <<"TABLESAMPLE", <<2, 0>>, "PERCENT">>
        /\ total_rows = 100000000 => sample_clause = <<"TABLESAMPLE", <<2, 0>>, "PERCENT">>

\* C7 amended: 1,000,000 rows -> empty clause, 10,000,000 rows ->
\* TABLESAMPLE (2.0000 PERCENT), 100,000,000 rows -> TABLESAMPLE (0.2000 PERCENT),
\* the lower limit SAMPLE_MIN_PCT.
C7_DefaultClauses ==
    pc = "planned" =>
        /\ total_rows = 1000000 => sample_clause = EmptyClause
        /\ total_rows = 10000000 => sample_clause = <<"TABLESAMPLE", <<2, 0>>, "PERCENT">>
        /\ total_rows = 100000000 => sample_clause = <<"TABLESAMPLE", <<0, 2000>>, "PERCENT">>

C7_Witness ==
    /\ pc = "planned"
    /\ total_rows = 100000000
    /\ sample_clause = TableSample(SAMPLE_MIN_PCT)

----------------------------------------------------------------------------
(* Column names and types.  The program tests names with regular            *)
(* expressions and types with set membership and startswith; the model      *)
(* tabulates the outcome of each test over the names and types it uses.     *)

MaxColumns == 17
WideColumns == 105
NameIndexes == 0..(MaxColumns + WideColumns + 1)

PlainName(i) == "col" \o ToString(i)
HintName(i) == "id" \o ToString(i)
EtlName(i) == "load_" \o ToString(i)

\* re.search(CONFIG["EXCLUDE_COLUMNS_REGEX"], name)
MatchesExcludeRegex(name) ==
    name \in {"created", "createdon", "created_at", "updated", "updatedon",
              "updated_at", "rowversion", "timestamp"}
             \cup {EtlName(i) : i \in NameIndexes}

\* DeterminantSelector.NAME_HINT_RE.search(name)
MatchesNameHint(name) ==
    name \in {"UserID", "OrderID", "CustomerID"} \cup {HintName(i) : i \in NameIndexes}

BLOB_TYPES ==
    {"xml", "image", "text", "ntext", "geography", "geometry", "hierarchyid",
     "sql_variant", "varbinary", "varbinary(max)", "varchar(max)", "nvarchar(max)"}

KeyLikeTypes == {"int", "bigint", "uniqueidentifier", "date", "datetime", "datetime2"}

\* data_type.startswith("nvarchar") or data_type.startswith("varchar")
StartsWithVarchar(data_type) ==
    data_type \in {"varchar", "nvarchar", "varchar(max)", "nvarchar(max)"}

DETERMINANT_POOL_SIZE == 15

ColumnProfile(name, data_type, nullable, distinct_count, null_count) ==
    [name |-> name, data_type |-> data_type, nullable |-> nullable,
     distinct_count |-> distinct_count, null_count |-> null_count,
     null_pct |-> None, min_value |-> None, max_value |-> None,
     score |-> Rat(0, 1)]

----------------------------------------------------------------------------
(* DeterminantSelector                                                      *)

\* x or 0
OrZero(x) == IF x = None THEN 0 ELSE x[1]

\* score_column, as the exact fraction with denominator 200 * max(row_count, 1):
\* 0.6 = 120/200, 0.2 = 40/200, -0.05 = -10/200, 0.15 = 30/200, -0.3 = -60/200,
\* and min(distinct / rows, 1.5) = min(2 * distinct, 3 * rows) / (2 * rows).
score_column(col, profile_rows) ==
    LET row_count == IF profile_rows > 1 THEN profile_rows ELSE 1
        non_null == row_count - OrZero(col.null_count)
        distinct2 == IF 2 * OrZero(col.distinct_count) < 3 * row_count
                     THEN 2 * OrZero(col.distinct_count) ELSE 3 * row_count
        type_bonus == IF col.data_type \in KeyLikeTypes THEN 40
                      ELSE IF StartsWithVarchar(col.data_type) THEN -10
                      ELSE 0
        name_bonus == IF MatchesNameHint(col.name) THEN 30 ELSE 0
        blob_penalty == IF col.data_type \in BLOB_TYPES THEN -60 ELSE 0
    IN  Rat(non_null * 120 + distinct2 * 60
            + (type_bonus + name_bonus + blob_penalty) * row_count,
            200 * row_count)

\* build_pool's first loop: every column gets its score.
ScoredColumns(cols, profile_rows) ==
    [i \in 1..Len(cols) |-> [cols[i] EXCEPT !.score = score_column(cols[i], profile_rows)]]

\* key=lambda c: c.score, reverse=True
HigherScore(a, b) == RatLt(b.score, a.score)
\* A slip: sorted ascending and then reversed, which turns the ties around.
ByScoreDesc_reversed(cols) ==
    LET ascending == StableSort(cols, [i \in 1..Len(cols) |-> [j \in 1..Len(cols) |->
                                          HigherScore(cols[j], cols[i])]])
    IN  [i \in 1..Len(cols) |-> ascending[Len(cols) - i + 1]]
ByScoreDesc(cols) ==
    StableSort(cols, [i \in 1..Len(cols) |-> [j \in 1..Len(cols) |->
                          HigherScore(cols[i], cols[j])]])
NotExcluded(c) == ~MatchesExcludeRegex(c.name)
\* [c for c in cols if not re.search(EXCLUDE_COLUMNS_REGEX, c.name)]
DropExcluded(cols) == SelectSeq(cols, NotExcluded)
NamesOf(cols) == [i \in 1..Len(cols) |-> cols[i].name]

\* A slip: the names matching the exclusion regex are not dropped.
build_pool_unfiltered(cols, profile_rows) ==
    Take(NamesOf(ByScoreDesc(ScoredColumns(cols, profile_rows))), DETERMINANT_POOL_SIZE)

build_pool(cols, profile_rows) ==
    LET sorted_cols == ByScoreDesc(ScoredColumns(cols, profile_rows))
        pool == NamesOf(DropExcluded(sorted_cols))
    IN  Take(pool, DETERMINANT_POOL_SIZE)

\* DeterminantSelector(profile).build_pool()
DeterminantSelector ==
    /\ pc = "profiled"
    /\ columns' = ScoredColumns(columns, total_rows)
    /\ determinant_pool' = build_pool(columns, total_rows)
    /\ pc' = "pooled"
    /\ UNCHANGED <<total_rows, sample_clause, table, todo, keys, measured, fds,
                   overrides, normalization>>
    /\ UNCHANGED <<written, run, warnings, exception>>

----------------------------------------------------------------------------
(* The determinant selector on its own, for profiles of up to MaxColumns    *)
(* columns.                                                                 *)

PoolRows == 20
ProfileTypes == <<"int", "varchar", "xml", "decimal", "varchar(max)">>
Shapes == {"rising", "falling", "flat"}

\* The i-th column of a generated profile of n columns; column e (if any) has an
\* ETL name.  A blob column has no distinct count (Profiler.profile_table).
GenColumn(i, n, e, shape, rows) ==
    LET name == IF i = e THEN EtlName(i)
                ELSE IF i % 3 = 0 THEN HintName(i)
                ELSE PlainName(i)
        data_type == IF i = e THEN "int" ELSE ProfileTypes[(i % Len(ProfileTypes)) + 1]
        distinct == CASE shape = "rising" -> i % (rows + 1)
                      [] shape = "falling" -> (n - i) % (rows + 1)
                      [] OTHER -> rows
        nulls == IF shape = "falling" THEN i % (rows + 1) ELSE 0
    IN  ColumnProfile(name, data_type, TRUE,
                      IF data_type \in BLOB_TYPES THEN None ELSE Some(distinct),
                      Some(nulls))

InitPool ==
    /\ pc = "profiled"
    /\ total_rows \in {0, PoolRows}
    /\ sample_clause = build_sample_clause(total_rows)
    /\ \E n \in 0..MaxColumns : \E e \in 0..n : \E shape \in Shapes :
          columns = [i \in 1..n |-> GenColumn(i, n, e, shape, total_rows)]
    /\ determinant_pool = <<>>
    /\ table = <<>>
    /\ NoMeasurements /\ NoAnalysis

NextPool == DeterminantSelector
SpecPool == InitPool /\ [][NextPool]_vars

ColumnNamed(name) == CHOOSE c \in Range(columns) : c.name = name

\* The number of columns among cols that score strictly higher than c.
Outscoring(c, cols) == Cardinality({d \in cols : RatLt(c.score, d.score)})

\* C8 as stated: the pool has at most DETERMINANT_POOL_SIZE names, and a column
\* is in the pool only if its score is among the top DETERMINANT_POOL_SIZE
\* scores of the table's columns and its name does not match the exclusion regex.
C8_AsStated ==
    pc = "pooled" =>
        /\ Len(determinant_pool) <= DETERMINANT_POOL_SIZE
        /\ \A name \in Range(determinant_pool) :
              /\ ~MatchesExcludeRegex(name)
              /\ Outscoring(ColumnNamed(name), Range(columns)) < DETERMINANT_POOL_SIZE

\* C8 amended: the pool has at most DETERMINANT_POOL_SIZE names, and a column is
\* in the pool only if its name does not match the exclusion regex and its score
\* is among the top DETERMINANT_POOL_SIZE scores of the columns whose names do
\* not match the exclusion regex.
C8_PoolTopOfNotExcluded ==
    pc = "pooled" =>
        /\ Len(determinant_pool) <= DETERMINANT_POOL_SIZE
        /\ \A name \in Range(determinant_pool) :
              /\ ~MatchesExcludeRegex(name)
              /\ Outscoring(ColumnNamed(name), {c \in Range(columns) : NotExcluded(c)})
                    < DETERMINANT_POOL_SIZE

\* A full pool from a profile in which an excluded column outscores a pool column
\* and a column that is not excluded is left out.
C8_Witness ==
    /\ pc = "pooled"
    /\ Len(determinant_pool) = DETERMINANT_POOL_SIZE
    /\ \E c \in Range(columns) : NotExcluded(c) /\ c.name \notin Range(determinant_pool)
    /\ \E c \in Range(columns) : \E name \in Range(determinant_pool) :
          MatchesExcludeRegex(c.name) /\ RatLt(ColumnNamed(name).score, c.score)

----------------------------------------------------------------------------
(* The determinant selector over the generated profiles and over the two    *)
(* columns of test_score_column, in both orders.                            *)

\* col_id and col_desc of TestDeterminantSelector.test_score_column
col_id == ColumnProfile("UserID", "int", FALSE, Some(100), Some(0))
col_desc == ColumnProfile("Description", "varchar(max)", TRUE, Some(10), Some(50))

InitPoolOrder ==
    \/ InitPool
    \/ /\ pc = "profiled"
       /\ total_rows = 100
       /\ sample_clause = build_sample_clause(total_rows)
       /\ columns \in {<<col_id, col_desc>>, <<col_desc, col_id>>, <<col_desc>>}
       /\ determinant_pool = <<>>
       /\ table = <<>>
       /\ NoMeasurements /\ NoAnalysis

SpecPoolOrder == InitPoolOrder /\ [][DeterminantSelector]_vars

\* The place of a column in the profile, and in the pool.
ColumnId(name) == CHOOSE i \in 1..Len(columns) : columns[i].name = name

\* C21: the pool lists its columns in non-increasing score order, columns of
\* equal score in input (column-id) order; in a 100-row table the int column
\* UserID (100 distinct values, no nulls) scores strictly higher than the
\* varchar(max) column Description (10 distinct values, 50 nulls) and comes
\* before it in the pool.
C21_PoolInScoreOrder ==
    pc = "pooled" =>
        /\ \A i, j \in 1..Len(determinant_pool) :
              i < j =>
                  LET a == ColumnNamed(determinant_pool[i])
                      b == ColumnNamed(determinant_pool[j])
                  IN  /\ RatLe(b.score, a.score)
                      /\ RatEq(a.score, b.score) =>
                            ColumnId(determinant_pool[i]) < ColumnId(determinant_pool[j])
        /\ \A i, j \in 1..Len(columns) :
              (/\ total_rows = 100
               /\ [columns[i] EXCEPT !.score = Rat(0, 1)] = col_id
               /\ [columns[j] EXCEPT !.score = Rat(0, 1)] = col_desc)
              => /\ RatLt(columns[j].score, columns[i].score)
                 /\ \E k, l \in 1..Len(determinant_pool) :
                       /\ k < l
                       /\ determinant_pool[k] = "UserID"
                       /\ determinant_pool[l] = "Description"

\* The pool of the profile (Description, UserID) lists UserID first.
C21_Witness ==
    /\ pc = "pooled"
    /\ total_rows = 100
    /\ Len(columns) = 2 /\ columns[1].name = "Description" /\ columns[2].name = "UserID"
    /\ determinant_pool = <<"UserID", "Description">>

----------------------------------------------------------------------------
(* The table in the database, and what a query sees of it.                  *)
(*                                                                          *)
(* The table is a set of batches [row, n]: n copies of one row, a row being *)
(* a function from column names to values, NULL among them.  Without a      *)
(* sample clause a query reads the whole table.  With TABLESAMPLE (and no   *)
(* REPEATABLE seed) the server draws a fresh sample of pages for every      *)
(* query, so each query reads some part of the table, chosen anew: the      *)
(* model lets it read any subset of the batches.                            *)

NULL == 0
Values == {1, 2}
MaxBatches == 2
BigBatch == 1500000
BatchSizes == {1, BigBatch}

SumOf(batches) ==
    LET sum[S \in SUBSET batches] ==
            IF S = {} THEN 0
            ELSE LET b == CHOOSE x \in S : TRUE IN b.n + sum[S \ {b}]
    IN  sum[batches]

\* SELECT COUNT(*) FROM table
RowCount(tbl) == SumOf(tbl)

\* FROM table {sample_clause}
Views(tbl, clause) == IF clause = EmptyClause THEN {tbl} ELSE SUBSET tbl

\* WHERE c1 IS NOT NULL AND c2 IS NOT NULL ...
NotNullFilter(view, cols) == {b \in view : \A c \in Range(cols) : b.row[c] # NULL}

\* GROUP BY cols: the values of the grouping columns, and a group's batches.
GroupKey(row, cols) == [i \in 1..Len(cols) |-> row[cols[i]]]
GroupsOf(rows, cols) == {GroupKey(b.row, cols) : b \in rows}
GroupOf(rows, cols, g) == {b \in rows : GroupKey(b.row, cols) = g}

\* itertools.combinations(seq, r), as a list in the order it yields them.
RECURSIVE combinations(_, _)
combinations(seq, r) ==
    IF r = 0 THEN << <<>> >>
    ELSE IF Len(seq) < r THEN <<>>
    ELSE LET with == combinations(Tail(seq), r - 1)
         IN  [i \in 1..Len(with) |-> <<Head(seq)>> \o with[i]]
             \o combinations(Tail(seq), r)

MAX_DETERMINANT_SIZE == 3

\* for r in range(1, MAX_DETERMINANT_SIZE + 1): for cols in combinations(pool, r)
RECURSIVE CombinationsUpTo(_, _)
CombinationsUpTo(pool, r) ==
    IF r = 0 THEN <<>> ELSE CombinationsUpTo(pool, r - 1) \o combinations(pool, r)
Determinants(pool) == CombinationsUpTo(pool, MAX_DETERMINANT_SIZE)

----------------------------------------------------------------------------
(* KeyFinder                                                                *)

KEY_MAX_DUP_ROW_PCT == Rat(1, 100)
KEY_MAX_NULL_ROW_PCT == Rat(0, 1)

\* KeyCandidate.is_strong
key_is_strong(k) ==
    RatLe(k.dup_pct, KEY_MAX_DUP_ROW_PCT) /\ RatLe(k.null_pct, KEY_MAX_NULL_ROW_PCT)

\* SELECT SUM(cnt - 1) FROM (SELECT COUNT(*) AS cnt ... GROUP BY cols): NULL when
\* there is no group, which `or 0` turns into 0.
DuplicateExcess(view, cols) ==
    LET rows == NotNullFilter(view, cols)
    IN  SumOf(rows) - Cardinality(GroupsOf(rows, cols))

\* A slip: with no row tested the duplicate ratio is taken to be 0.
_combination_stats_none_is_clean(cols, count_view, dup_view, null_view) ==
    LET tested_rows == SumOf(NotNullFilter(count_view, cols))
        duplicate_excess_rows == DuplicateExcess(dup_view, cols)
        null_rows == SumOf(null_view \ NotNullFilter(null_view, cols))
    IN  [columns |-> cols,
         tested_rows |-> tested_rows,
         duplicate_excess_rows |-> duplicate_excess_rows,
         dup_pct |-> IF tested_rows # 0 THEN Rat(duplicate_excess_rows, tested_rows)
                     ELSE Rat(0, 1),
         null_rows |-> null_rows,
         null_pct |-> IF tested_rows + null_rows # 0
                      THEN Rat(null_rows, tested_rows + null_rows)
                      ELSE Rat(0, 1)]

\* _combination_stats: its three queries read count_view, dup_view and null_view.
_combination_stats(cols, count_view, dup_view, null_view) ==
    LET tested_rows == SumOf(NotNullFilter(count_view, cols))
        duplicate_excess_rows == DuplicateExcess(dup_view, cols)
        null_rows == SumOf(null_view \ NotNullFilter(null_view, cols))
    IN  [columns |-> cols,
         tested_rows |-> tested_rows,
         duplicate_excess_rows |-> duplicate_excess_rows,
         dup_pct |-> IF tested_rows # 0 THEN Rat(duplicate_excess_rows, tested_rows)
                     ELSE Rat(1, 1),
         null_rows |-> null_rows,
         null_pct |-> IF tested_rows + null_rows # 0
                      THEN Rat(null_rows, tested_rows + null_rows)
                      ELSE Rat(0, 1)]

\* A slip: the tuple size comes first in the sort key.
KeyLess_size_first(a, b) ==
    \/ Len(a.columns) < Len(b.columns)
    \/ /\ Len(a.columns) = Len(b.columns)
       /\ \/ RatLt(a.dup_pct, b.dup_pct)
          \/ RatEq(a.dup_pct, b.dup_pct) /\ RatLt(a.null_pct, b.null_pct)

\* key=lambda k: (k.dup_pct, k.null_pct, len(k.columns))
KeyLess(a, b) ==
    \/ RatLt(a.dup_pct, b.dup_pct)
    \/ /\ RatEq(a.dup_pct, b.dup_pct)
       /\ \/ RatLt(a.null_pct, b.null_pct)
          \/ RatEq(a.null_pct, b.null_pct) /\ Len(a.columns) < Len(b.columns)

SortCandidates(cands) ==
    StableSort(cands, [i \in 1..Len(cands) |-> [j \in 1..Len(cands) |->
                           KeyLess(cands[i], cands[j])]])

\* What the test of one combination can give: a candidate, or no candidate and
\* the exception of a query that raised.
KeyTest(cols) ==
    {[candidate |-> None, exc |-> Some("query failed")]} \cup
    {[candidate |-> Some(_combination_stats(cols, v1, v2, v3)), exc |-> None] :
        v1 \in Views(table, sample_clause),
        v2 \in Views(table, sample_clause),
        v3 \in Views(table, sample_clause)}

\* print(f"[WARN] Failed key test for {schema}.{table} columns {cols}: {exc}")
KeyWarning(cols, exc) ==
    [test |-> "key", columns |-> cols, dependent |-> None, exc |-> exc]

\* One pass of find_candidates' loop; the pass that ends the enumeration also
\* sorts the candidates and returns.  A query that raises skips the combination.
find_candidates ==
    /\ pc \in {"pooled", "find_candidates"}
    /\ LET work == IF pc = "pooled" THEN Determinants(determinant_pool) ELSE todo
           done == IF pc = "pooled" THEN <<>> ELSE keys
       IN  IF work = <<>>
           THEN /\ keys' = SortCandidates(done)
                /\ todo' = <<>>
                /\ pc' = "keyed"
                /\ UNCHANGED warnings
           ELSE \E test \in KeyTest(Head(work)) :
                    LET got == IF test.candidate = None THEN done
                               ELSE Append(done, test.candidate[1])
                    IN  /\ warnings' = IF test.exc = None THEN warnings
                                       ELSE Append(warnings,
                                                   KeyWarning(Head(work), test.exc[1]))
                        /\ IF Tail(work) = <<>>
                           THEN /\ keys' = SortCandidates(got)
                                /\ todo' = <<>>
                                /\ pc' = "keyed"
                           ELSE /\ keys' = got
                                /\ todo' = Tail(work)
                                /\ pc' = "find_candidates"
    /\ UNCHANGED <<total_rows, sample_clause, columns, determinant_pool, table,
                   measured, fds, overrides, normalization>>
    /\ UNCHANGED <<written, run, exception>>

----------------------------------------------------------------------------
(* The key finder on its own, for tables of up to MaxBatches batches over   *)
(* the columns A and B.                                                     *)

\* MetadataReader.list_columns: A is nullable, B is not.
TableColumns ==
    <<[name |-> "A", data_type |-> "int", nullable |-> TRUE],
      [name |-> "B", data_type |-> "int", nullable |-> FALSE]>>
ColumnNames == {TableColumns[i].name : i \in 1..Len(TableColumns)}
Rows ==
    {r \in [ColumnNames -> {NULL} \cup Values] :
        \A i \in 1..Len(TableColumns) :
            r[TableColumns[i].name] = NULL => TableColumns[i].nullable}
\* The tables of at most k batches, no two batches of the same row.
RECURSIVE TablesUpTo(_)
TablesUpTo(k) ==
    IF k = 0 THEN {{}}
    ELSE LET smaller == TablesUpTo(k - 1)
         IN  smaller \cup
             UNION {{t \cup {b} : b \in {x \in [row : Rows, n : BatchSizes] :
                                              \A y \in t : y.row # x.row}} :
                    t \in smaller}
Tables == TablesUpTo(MaxBatches)
Pools == {<<>>, <<"A">>, <<"B">>, <<"A", "B">>}

\* The profile of table t as Profiler.profile_table leaves it (the columns'
\* statistics play no part after the pool is built).
ProfileOf(t) ==
    /\ table = t
    /\ total_rows = RowCount(t)
    /\ sample_clause = build_sample_clause(RowCount(t))
    /\ columns = [i \in 1..Len(TableColumns) |->
                     ColumnProfile(TableColumns[i].name, TableColumns[i].data_type,
                                   TableColumns[i].nullable, None, Some(0))]

InitKeys ==
    /\ pc = "pooled"
    /\ \E t \in Tables : ProfileOf(t)
    /\ determinant_pool \in Pools
    /\ NoMeasurements /\ NoAnalysis

NextKeys == find_candidates
SpecKeys == InitKeys /\ [][NextKeys]_vars

Ratio01(x) == RatLe(Rat(0, 1), x) /\ RatLe(x, Rat(1, 1))

\* C9: every KeyCandidate has 0 <= dup_pct <= 1 and 0 <= null_pct <= 1, also when
\* its three measurements come from separate queries over a sampled table, and
\* dup_pct is 1.0 when tested_rows = 0.
C9_KeyRatiosInUnitInterval ==
    \A i \in 1..Len(keys) :
        /\ Ratio01(keys[i].dup_pct)
        /\ Ratio01(keys[i].null_pct)
        /\ keys[i].tested_rows = 0 => RatEq(keys[i].dup_pct, Rat(1, 1))

----------------------------------------------------------------------------
(* The key finder over pools of up to four columns, where                   *)
(* MAX_DETERMINANT_SIZE leaves a combination out, for small tables that are *)
(* scanned in full; the pool of four is run over the largest table only.    *)

KeyOrderNames == <<"A", "B", "C", "X">>
KeyOrderRow(a, b, c, x) == [A |-> a, B |-> b, C |-> c, X |-> x]
KeyOrderBatches ==
    <<[row |-> KeyOrderRow(1, 1, 1, NULL), n |-> 1],
      [row |-> KeyOrderRow(1, 2, 1, 1), n |-> 1],
      [row |-> KeyOrderRow(2, 2, 2, NULL), n |-> 1]>>
\* The tables made of the first k batches.
KeyOrderTables == {{KeyOrderBatches[i] : i \in 1..k} : k \in 0..Len(KeyOrderBatches)}
KeyOrderPools == {<<>>, <<"X">>, <<"B", "A">>, <<"C", "X", "A">>, <<"B", "A", "X", "C">>}

InitKeyOrder ==
    /\ pc = "pooled"
    /\ table \in KeyOrderTables
    /\ total_rows = RowCount(table)
    /\ sample_clause = build_sample_clause(total_rows)
    /\ columns = [i \in 1..Len(KeyOrderNames) |->
                     ColumnProfile(KeyOrderNames[i], "int", TRUE, None, Some(0))]
    /\ determinant_pool \in KeyOrderPools
    /\ Len(determinant_pool) > MAX_DETERMINANT_SIZE
          => Cardinality(table) = Len(KeyOrderBatches)
    /\ NoMeasurements /\ NoAnalysis

NextKeyOrder == find_candidates
SpecKeyOrder == InitKeyOrder /\ [][NextKeyOrder]_vars

\* The place of a column in the pool, and of the k-th columns of a combination.
PoolIndex(name) == CHOOSE i \in 1..Len(determinant_pool) : determinant_pool[i] = name
\* c comes before d in the enumeration: smaller, or of the same size and
\* lexicographically before it by pool index.
Earlier(c, d) ==
    \/ Len(c) < Len(d)
    \/ /\ Len(c) = Len(d)
       /\ \E k \in 1..Len(c) :
             /\ \A j \in 1..(k - 1) : c[j] = d[j]
             /\ PoolIndex(c[k]) < PoolIndex(d[k])
\* The columns at the places S of the pool, in the order of the pool.
AtPlaces(S) ==
    [k \in 1..Cardinality(S) |->
        determinant_pool[CHOOSE i \in S : Cardinality({j \in S : j < i}) = k - 1]]
AllCombinations ==
    {AtPlaces(S) : S \in {T \in SUBSET (1..Len(determinant_pool)) :
                             Cardinality(T) \in 1..MAX_DETERMINANT_SIZE}}
\* The combinations whose measurement raised, and those that gave a candidate.
SkippedCombinations ==
    {warnings[i].columns : i \in {j \in 1..Len(warnings) : warnings[j].test = "key"}}
MeasuredCombinations == {keys[i].columns : i \in 1..Len(keys)}

\* C20: find_candidates tries every combination of 1..MAX_DETERMINANT_SIZE pool
\* columns, by size and within a size in lexicographic pool-index order; a
\* combination whose measurement raises is skipped and the enumeration goes on;
\* the list returned has exactly one candidate for each combination measured,
\* sorted by dup_pct, then null_pct, then tuple size, ascending, with ties left
\* in enumeration order.
C20_EveryCombinationInOrder ==
    pc \in {"find_candidates", "keyed"} =>
        /\ MeasuredCombinations \cup SkippedCombinations \cup Range(todo) = AllCombinations
        /\ MeasuredCombinations \cap SkippedCombinations = {}
        /\ Range(todo) \cap (MeasuredCombinations \cup SkippedCombinations) = {}
        /\ Len(keys) = Cardinality(MeasuredCombinations)
        /\ \A c \in MeasuredCombinations \cup SkippedCombinations :
              \A d \in Range(todo) : Earlier(c, d)
        /\ \A i, j \in 1..Len(todo) : i < j => Earlier(todo[i], todo[j])
        /\ \A i, j \in 1..Len(warnings) :
              i < j => Earlier(warnings[i].columns, warnings[j].columns)
        /\ pc = "find_candidates" =>
              \A i, j \in 1..Len(keys) : i < j => Earlier(keys[i].columns, keys[j].columns)
        /\ pc = "keyed" =>
              /\ todo = <<>>
              /\ \A i, j \in 1..Len(keys) :
                    i < j =>
                        \/ RatLt(keys[i].dup_pct, keys[j].dup_pct)
                        \/ /\ RatEq(keys[i].dup_pct, keys[j].dup_pct)
                           /\ \/ RatLt(keys[i].null_pct, keys[j].null_pct)
                              \/ /\ RatEq(keys[i].null_pct, keys[j].null_pct)
                                 /\ \/ Len(keys[i].columns) < Len(keys[j].columns)
                                    \/ /\ Len(keys[i].columns) = Len(keys[j].columns)
                                       /\ Earlier(keys[i].columns, keys[j].columns)

\* From a pool of four columns find_candidates has returned strong and weak
\* candidates: a combination was skipped and a later one measured, a candidate
\* of three columns comes before one of a single column, and two candidates
\* tie on all three sort keys.
C20_Witness ==
    /\ pc = "keyed"
    /\ Len(determinant_pool) = 4
    /\ \E c \in SkippedCombinations : \E d \in MeasuredCombinations : Earlier(c, d)
    /\ \E i, j \in 1..Len(keys) : key_is_strong(keys[i]) /\ ~key_is_strong(keys[j])
    /\ \E i, j \in 1..Len(keys) :
          i < j /\ Len(keys[i].columns) = 3 /\ Len(keys[j].columns) = 1
    /\ \E i, j \in 1..Len(keys) :
          /\ i < j
          /\ RatEq(keys[i].dup_pct, keys[j].dup_pct)
          /\ RatEq(keys[i].null_pct, keys[j].null_pct)
          /\ Len(keys[i].columns) = Len(keys[j].columns)

----------------------------------------------------------------------------
(* FDDiscoverer                                                             *)

MAX_DEPENDENTS_TESTED == 60
FD_MAX_VIOLATING_GROUP_PCT == Rat(1, 10)
FD_MAX_VIOLATING_ROW_PCT == Rat(1, 100)
FD_MIN_COVERAGE_PCT == Rat(20, 1)

\* A slip: the coverage threshold is not tested.
fd_is_strong_any_coverage(fd) ==
    /\ RatLe(fd.violating_groups_pct, FD_MAX_VIOLATING_GROUP_PCT)
    /\ RatLe(fd.violating_rows_pct, FD_MAX_VIOLATING_ROW_PCT)

\* FunctionalDependency.is_strong
fd_is_strong(fd) ==
    /\ RatLe(FD_MIN_COVERAGE_PCT, fd.coverage_pct)
    /\ RatLe(fd.violating_groups_pct, FD_MAX_VIOLATING_GROUP_PCT)
    /\ RatLe(fd.violating_rows_pct, FD_MAX_VIOLATING_ROW_PCT)

\* A slip: a blob column is kept as a dependent whether forced or not.
_dependent_candidates_with_blobs(determinant, cols, force_include) ==
    LET Kept(col) ==
            /\ col.name \notin Range(determinant)
            /\ ~MatchesExcludeRegex(col.name)
    IN  Take(NamesOf(SelectSeq(cols, Kept)), MAX_DEPENDENTS_TESTED)

_dependent_candidates(determinant, cols, force_include) ==
    LET Kept(col) ==
            /\ col.name \notin Range(determinant)
            /\ ~(/\ col.data_type \in BLOB_TYPES
                 /\ col.name \notin Range(force_include))
            /\ ~MatchesExcludeRegex(col.name)
    IN  Take(NamesOf(SelectSeq(cols, Kept)), MAX_DEPENDENTS_TESTED)

\* The groups of the aggregate query with COUNT(DISTINCT dependent) > 1.
ViolatingGroups(rows, determinant, dependent) ==
    {g \in GroupsOf(rows, determinant) :
        Cardinality({b.row[dependent] : b \in GroupOf(rows, determinant, g)}) > 1}

\* The rows of the groups in gs.
RowsOfGroups(rows, determinant, gs) ==
    {b \in rows : GroupKey(b.row, determinant) \in gs}

\* The values in S in ascending order.
Ascending(S) ==
    LET asc[T \in SUBSET S] ==
            IF T = {} THEN <<>>
            ELSE LET m == CHOOSE x \in T : \A y \in T : x <= y
                 IN  <<m>> \o asc[T \ {m}]
    IN  asc[S]

\* One row of the evidence query: the determinant's values and the distinct
\* dependent values of the group, in ascending order.
EvidenceEntry(rows, determinant, dependent, g) ==
    [determinant_values |-> g,
     values_seen |-> Ascending({b.row[dependent] : b \in GroupOf(rows, determinant, g)})]

\* SELECT TOP (5) ... WHERE g.dep_count > 1, with no ORDER BY: any five of the
\* violating groups, in any order.
EvidenceSamples(view, determinant, dependent) ==
    LET rows == NotNullFilter(view, determinant \o <<dependent>>)
        violating == ViolatingGroups(rows, determinant, dependent)
        k == IF Cardinality(violating) < 5 THEN Cardinality(violating) ELSE 5
    IN  {[i \in 1..k |-> EvidenceEntry(rows, determinant, dependent, top[i])] :
            top \in {f \in [1..k -> violating] :
                        \A i, j \in 1..k : f[i] = f[j] => i = j}}

\* violating_rows / tested_rows with violating_rows None (SUM over no group is
\* NULL) and tested_rows non-zero: a TypeError.
fd_stats_raises(determinant, dependent, count_view, agg_view) ==
    LET cols == determinant \o <<dependent>>
    IN  /\ SumOf(NotNullFilter(count_view, cols)) # 0
        /\ NotNullFilter(agg_view, cols) = {}

\* A slip: the coverage is taken over the rows of the sample.
_fd_stats_sample_coverage(determinant, dependent, rows_total, count_view, agg_view, sample) ==
    LET cols == determinant \o <<dependent>>
        tested_rows == SumOf(NotNullFilter(count_view, cols))
        rows == NotNullFilter(agg_view, cols)
        total_groups == Cardinality(GroupsOf(rows, determinant))
        violating == ViolatingGroups(rows, determinant, dependent)
        violating_groups == IF rows = {} THEN None ELSE Some(Cardinality(violating))
        violating_rows == IF rows = {} THEN None
                          ELSE Some(SumOf(RowsOfGroups(rows, determinant, violating)))
    IN  [determinant |-> determinant,
         dependent |-> dependent,
         tested_rows |-> tested_rows,
         coverage_pct |-> IF SumOf(count_view) # 0
                          THEN Rat(tested_rows * 100, SumOf(count_view))
                          ELSE Rat(0, 1),
         total_groups |-> total_groups,
         violating_groups |-> violating_groups,
         violating_groups_pct |-> IF total_groups # 0
                                  THEN Rat(violating_groups[1] * 100, total_groups)
                                  ELSE Rat(0, 1),
         violating_rows |-> violating_rows,
         violating_rows_pct |-> IF tested_rows # 0
                                THEN Rat(violating_rows[1] * 100, tested_rows)
                                ELSE Rat(0, 1),
         sample_violations |-> sample]

\* _fd_stats when it returns: its count query reads count_view, its aggregate
\* query agg_view; sample is what its evidence query returned.
_fd_stats(determinant, dependent, rows_total, count_view, agg_view, sample) ==
    LET cols == determinant \o <<dependent>>
        tested_rows == SumOf(NotNullFilter(count_view, cols))
        rows == NotNullFilter(agg_view, cols)
        total_groups == Cardinality(GroupsOf(rows, determinant))
        violating == ViolatingGroups(rows, determinant, dependent)
        violating_groups == IF rows = {} THEN None ELSE Some(Cardinality(violating))
        violating_rows == IF rows = {} THEN None
                          ELSE Some(SumOf(RowsOfGroups(rows, determinant, violating)))
    IN  [determinant |-> determinant,
         dependent |-> dependent,
         tested_rows |-> tested_rows,
         coverage_pct |-> IF rows_total # 0 THEN Rat(tested_rows * 100, rows_total)
                          ELSE Rat(0, 1),
         total_groups |-> total_groups,
         violating_groups |-> violating_groups,
         violating_groups_pct |-> IF total_groups # 0
                                  THEN Rat(violating_groups[1] * 100, total_groups)
                                  ELSE Rat(0, 1),
         violating_rows |-> violating_rows,
         violating_rows_pct |-> IF tested_rows # 0
                                THEN Rat(violating_rows[1] * 100, tested_rows)
                                ELSE Rat(0, 1),
         sample_violations |-> sample]

\* Column names in the order Python compares them (by code point).
NamesInOrder == <<"A", "B", "C", "X">>
NameRank(name) == CHOOSE i \in 1..Len(NamesInOrder) : NamesInOrder[i] = name
\* s < t for tuples of names of one length
TupleLess(s, t) ==
    \E i \in 1..Len(s) :
        /\ \A j \in 1..(i - 1) : s[j] = t[j]
        /\ NameRank(s[i]) < NameRank(t[i])

\* key=lambda f: (len(f.determinant), f.determinant, f.dependent)
FdLess(a, b) ==
    \/ Len(a.determinant) < Len(b.determinant)
    \/ /\ Len(a.determinant) = Len(b.determinant)
       /\ \/ TupleLess(a.determinant, b.determinant)
          \/ /\ a.determinant = b.determinant
             /\ NameRank(a.dependent) < NameRank(b.dependent)

SortFds(list) ==
    StableSort(list, [i \in 1..Len(list) |-> [j \in 1..Len(list) |->
                          FdLess(list[i], list[j])]])

\* A slip: the dependent is not compared.
Redundant_any_dependent(fd, accepted) ==
    \E i \in 1..Len(accepted) :
        Range(accepted[i].determinant) \subseteq Range(fd.determinant)

\* set(acc.determinant).issubset(fd.determinant) and acc.dependent == fd.dependent
Redundant(fd, accepted) ==
    \E i \in 1..Len(accepted) :
        /\ Range(accepted[i].determinant) \subseteq Range(fd.determinant)
        /\ accepted[i].dependent = fd.dependent

\* A slip: the list is walked in the order measured, not sorted.
_minimize_unsorted(list) ==
    LET accepted[n \in 0..Len(list)] ==
            IF n = 0 THEN <<>>
            ELSE IF ~fd_is_strong(list[n]) THEN accepted[n - 1]
            ELSE IF Redundant(list[n], accepted[n - 1]) THEN accepted[n - 1]
            ELSE Append(accepted[n - 1], list[n])
    IN  accepted[Len(list)]

_minimize(list) ==
    LET fds_sorted == SortFds(list)
        accepted[n \in 0..Len(list)] ==
            IF n = 0 THEN <<>>
            ELSE IF ~fd_is_strong(fds_sorted[n]) THEN accepted[n - 1]
            ELSE IF Redundant(fds_sorted[n], accepted[n - 1]) THEN accepted[n - 1]
            ELSE Append(accepted[n - 1], fds_sorted[n])
    IN  accepted[Len(list)]

\* The (determinant, dependent) pairs in the order discover measures them.
FdPairs(pool, cols, force_include) ==
    LET dets == Determinants(pool)
        pairs[n \in 0..Len(dets)] ==
            IF n = 0 THEN <<>>
            ELSE LET deps == _dependent_candidates(dets[n], cols, force_include)
                 IN  pairs[n - 1] \o [i \in 1..Len(deps) |-> <<dets[n], deps[i]>>]
    IN  pairs[Len(dets)]

\* The pairs of samples that the count query and the aggregate query of
\* _fd_stats can read without the TypeError above, and those with it.
StatsViews(determinant, dependent) ==
    {vv \in Views(table, sample_clause) \X Views(table, sample_clause) :
        ~fd_stats_raises(determinant, dependent, vv[1], vv[2])}
TypeErrorViews(determinant, dependent) ==
    {vv \in Views(table, sample_clause) \X Views(table, sample_clause) :
        fd_stats_raises(determinant, dependent, vv[1], vv[2])}

\* What the test of one pair can give: an FD, or no FD and the exception that
\* _fd_stats raised: in its count query, in its aggregate query, in the division
\* by tested_rows, or in its evidence query after the statistics were computed.
FdTest(determinant, dependent) ==
    {[fd |-> None, exc |-> Some("count query failed")],
     [fd |-> None, exc |-> Some("aggregate query failed")]}
    \cup {[fd |-> None, exc |-> Some("TypeError")] :
             vv \in TypeErrorViews(determinant, dependent)}
    \cup {[fd |-> None, exc |-> Some("evidence query failed")] :
             vv \in StatsViews(determinant, dependent)}
    \cup UNION {{[fd |-> Some(_fd_stats(determinant, dependent, total_rows,
                                        vv[1], vv[2], sample)),
                  exc |-> None] :
                    sample \in UNION {EvidenceSamples(v3, determinant, dependent) :
                                         v3 \in Views(table, sample_clause)}} :
                vv \in StatsViews(determinant, dependent)}

\* print(f"[WARN] FD test failed for {schema}.{table} {determinant}->{dep}: {exc}")
FdWarning(determinant, dependent, exc) ==
    [test |-> "fd", columns |-> determinant, dependent |-> Some(dependent), exc |-> exc]

\* One pass of discover's inner loop; the pass that ends the enumeration also
\* minimizes the list and returns.
discover ==
    /\ pc \in {"keyed", "discover"}
    /\ LET work == IF pc = "keyed"
                   THEN FdPairs(determinant_pool, columns, overrides.FORCE_INCLUDE_COLUMNS)
                   ELSE todo
           done == IF pc = "keyed" THEN <<>> ELSE measured
       IN  IF work = <<>>
           THEN /\ measured' = done
                /\ fds' = _minimize(done)
                /\ todo' = <<>>
                /\ pc' = "discovered"
                /\ UNCHANGED warnings
           ELSE \E test \in FdTest(Head(work)[1], Head(work)[2]) :
                    LET got == IF test.fd = None THEN done ELSE Append(done, test.fd[1])
                    IN  /\ warnings' = IF test.exc = None THEN warnings
                                       ELSE Append(warnings,
                                                   FdWarning(Head(work)[1], Head(work)[2],
                                                             test.exc[1]))
                        /\ IF Tail(work) = <<>>
                           THEN /\ measured' = got
                                /\ fds' = _minimize(got)
                                /\ todo' = <<>>
                                /\ pc' = "discovered"
                           ELSE /\ measured' = got
                                /\ fds' = <<>>
                                /\ todo' = Tail(work)
                                /\ pc' = "discover"
    /\ UNCHANGED <<total_rows, sample_clause, columns, determinant_pool, table, keys,
                   overrides, normalization>>
    /\ UNCHANGED <<written, run, exception>>

----------------------------------------------------------------------------
(* The FD discoverer on its own, for the tables and pools of the key finder. *)

InitFds ==
    /\ pc = "keyed"
    /\ \E t \in Tables : ProfileOf(t)
    /\ determinant_pool \in Pools
    /\ NoMeasurements /\ NoAnalysis

NextFds == discover
SpecFds == InitFds /\ [][NextFds]_vars

Pct0to100(x) == RatLe(Rat(0, 1), x) /\ RatLe(x, Rat(100, 1))

\* C10: every FunctionalDependency measured has its three percentages within
\* [0, 100], each 0 when its denominator is zero, also when the count query and
\* the aggregate query run separately over a sampled table.
C10_FdPercentagesInRange ==
    \A i \in 1..Len(measured) :
        LET fd == measured[i]
        IN  /\ Pct0to100(fd.coverage_pct)
            /\ Pct0to100(fd.violating_groups_pct)
            /\ Pct0to100(fd.violating_rows_pct)
            /\ total_rows = 0 => RatEq(fd.coverage_pct, Rat(0, 1))
            /\ fd.total_groups = 0 => RatEq(fd.violating_groups_pct, Rat(0, 1))
            /\ fd.tested_rows = 0 => RatEq(fd.violating_rows_pct, Rat(0, 1))

\* C2: every FD that discover returns is strong: coverage_pct >= 20,
\* violating_groups_pct <= 0.1 and violating_rows_pct <= 0.01; an FD measured
\* that is not strong is never among them.
C2_AcceptedFdsAreStrong ==
    pc = "discovered" =>
        /\ \A i \in 1..Len(fds) :
              /\ RatLe(FD_MIN_COVERAGE_PCT, fds[i].coverage_pct)
              /\ RatLe(fds[i].violating_groups_pct, FD_MAX_VIOLATING_GROUP_PCT)
              /\ RatLe(fds[i].violating_rows_pct, FD_MAX_VIOLATING_ROW_PCT)
        /\ Range(fds) \subseteq Range(measured)

\* discover has measured two FDs, returned the one that is strong and dropped
\* the other, whose coverage suffices but whose rows violate it.
C2_Witness ==
    /\ pc = "discovered"
    /\ Len(measured) = 2
    /\ Len(fds) = 1
    /\ \E i \in 1..Len(measured) :
          /\ RatLe(FD_MIN_COVERAGE_PCT, measured[i].coverage_pct)
          /\ RatLt(FD_MAX_VIOLATING_ROW_PCT, measured[i].violating_rows_pct)
          /\ measured[i] \notin Range(fds)

\* The [WARN] lines of FD tests whose evidence query raised.
EvidenceFailures ==
    {i \in 1..Len(warnings) :
        warnings[i].test = "fd" /\ warnings[i].exc = "evidence query failed"}

\* C17: an FD whose evidence query fails, after its count and aggregate queries
\* succeeded, is still emitted with its statistics and an empty
\* sample_violations list.
C17_EvidenceFailureKeepsFd ==
    \A i \in EvidenceFailures :
        \E j \in 1..Len(measured) :
            /\ measured[j].determinant = warnings[i].columns
            /\ measured[j].dependent = warnings[i].dependent[1]
            /\ measured[j].sample_violations = <<>>

----------------------------------------------------------------------------
(* The FD discoverer over tables large enough to be sampled: a batch of one *)
(* row and two batches of BigBatch copies of two different rows, none with  *)
(* NULL.                                                                    *)

FullRows == {r \in Rows : \A c \in ColumnNames : r[c] # NULL}
SampledTables ==
    {{[row |-> r[1], n |-> 1], [row |-> r[2], n |-> BigBatch], [row |-> r[3], n |-> BigBatch]} :
        r \in {x \in FullRows \X FullRows \X FullRows : x[2] # x[3]}}

InitSampledFds ==
    /\ pc = "keyed"
    /\ \E t \in SampledTables : ProfileOf(t)
    /\ determinant_pool \in {<<"A">>, <<"B">>}
    /\ NoMeasurements /\ NoAnalysis

SpecSampledFds == InitSampledFds /\ [][discover]_vars

\* fd holds in the whole table: no group of its determinant has two values of
\* its dependent.
HoldsInTable(fd) == ViolatingGroups(table, fd.determinant, fd.dependent) = {}

\* C24: for a table of more than FULL_SCAN_MAX_ROWS rows an FD's coverage_pct is
\* its tested (sampled, non-null) rows over the full row count; an FD whose
\* tested rows are fewer than FD_MIN_COVERAGE_PCT percent of the full row count
\* is not strong and not returned, and discover returns nothing when that is so
\* for every FD it measured.
C24_CoverageOverFullRowCount ==
    total_rows > FULL_SCAN_MAX_ROWS =>
        /\ sample_clause # EmptyClause
        /\ \A i \in 1..Len(measured) :
              /\ RatEq(measured[i].coverage_pct,
                       Rat(measured[i].tested_rows * 100, total_rows))
              /\ RatLt(Rat(measured[i].tested_rows * 100, total_rows), FD_MIN_COVERAGE_PCT)
                    => /\ ~fd_is_strong(measured[i])
                       /\ pc = "discovered" => measured[i] \notin Range(fds)
        /\ (/\ pc = "discovered"
            /\ \A i \in 1..Len(measured) :
                  RatLt(Rat(measured[i].tested_rows * 100, total_rows),
                        FD_MIN_COVERAGE_PCT))
              => fds = <<>>

\* A sampled table without NULLs in which the FD measured holds; the sample held
\* rows, every one of them was tested and none violates the FD, and discover
\* returns nothing.
C24_Witness ==
    /\ pc = "discovered"
    /\ total_rows > FULL_SCAN_MAX_ROWS
    /\ Len(measured) = 1
    /\ HoldsInTable(measured[1])
    /\ measured[1].tested_rows > 0
    /\ measured[1].violating_rows = Some(0)
    /\ RatLt(measured[1].coverage_pct, FD_MIN_COVERAGE_PCT)
    /\ fds = <<>>

----------------------------------------------------------------------------
(* The pairs that discover hands to _fd_stats, for profiles with blob and    *)
(* ETL columns, overrides, and more eligible dependents than the cap.        *)

\* discover's loops without the measurement: each determinant in the order of
\* the enumeration, with the dependents that are tested against it.
DependentsTested(pool, cols, force_include) ==
    LET dets == Determinants(pool)
    IN  [n \in 1..Len(dets) |->
            [determinant |-> dets[n],
             dependents |-> _dependent_candidates(dets[n], cols, force_include)]]

discover_dependents ==
    /\ pc = "keyed"
    /\ todo' = DependentsTested(determinant_pool, columns,
                                overrides.FORCE_INCLUDE_COLUMNS)
    /\ pc' = "dependents"
    /\ UNCHANGED <<total_rows, sample_clause, columns, determinant_pool, table, keys,
                   measured, fds, overrides, normalization>>
    /\ UNCHANGED <<written, run, warnings, exception>>

SmallColumns == 6
\* CONFIG["OVERRIDES"]["FORCE_INCLUDE_COLUMNS"] for the table: nothing, blob
\* columns, and a column with an ETL name.
ForceIncluded ==
    {<<>>, <<PlainName(2)>>, <<PlainName(2), PlainName(4)>>, <<PlainName(2), EtlName(1)>>}

\* The profile and the pool as DeterminantSelector leaves them.
InitDependents ==
    /\ pc = "keyed"
    /\ total_rows \in {0, PoolRows}
    /\ sample_clause = build_sample_clause(total_rows)
    /\ \E n \in 0..SmallColumns \cup {WideColumns} : \E e \in 0..n : \E shape \in Shapes :
          /\ n > SmallColumns => (e <= 1 /\ shape = "flat" /\ total_rows = PoolRows)
          /\ LET cols == [i \in 1..n |-> GenColumn(i, n, e, shape, total_rows)]
             IN  /\ columns = ScoredColumns(cols, total_rows)
                 /\ determinant_pool = build_pool(cols, total_rows)
    /\ table = <<>>
    /\ NoMeasurements
    /\ \E forced \in ForceIncluded :
          overrides = [NoOverrides EXCEPT !.FORCE_INCLUDE_COLUMNS = forced]
    /\ normalization = NoNormalization
    /\ NoOutput
    /\ NoRun

NextDependents == discover_dependents
SpecDependents == InitDependents /\ [][NextDependents]_vars

\* C19: every pair measured has a determinant of 1..MAX_DETERMINANT_SIZE
\* distinct pool columns and a dependent that is outside the determinant, is
\* not a blob column unless FORCE_INCLUDE_COLUMNS lists it, and does not match
\* the ETL exclusion regex; no determinant is enumerated twice, and at most
\* MAX_DEPENDENTS_TESTED dependents are tested against each.
C19_MeasuredPairsEligible ==
    pc = "dependents" =>
        /\ \A i \in 1..Len(todo) :
              LET determinant == todo[i].determinant
                  dependents == todo[i].dependents
              IN  /\ Len(determinant) \in 1..MAX_DETERMINANT_SIZE
                  /\ Range(determinant) \subseteq Range(determinant_pool)
                  /\ Cardinality(Range(determinant)) = Len(determinant)
                  /\ Len(dependents) <= MAX_DEPENDENTS_TESTED
                  /\ Cardinality(Range(dependents)) = Len(dependents)
                  /\ \A dep \in Range(dependents) :
                        /\ dep \notin Range(determinant)
                        /\ ColumnNamed(dep).data_type \in BLOB_TYPES
                              => dep \in Range(overrides.FORCE_INCLUDE_COLUMNS)
                        /\ ~MatchesExcludeRegex(dep)
        /\ \A i, j \in 1..Len(todo) :
              todo[i].determinant = todo[j].determinant => i = j

\* More than MAX_DEPENDENTS_TESTED columns are eligible for some determinant
\* and exactly MAX_DEPENDENTS_TESTED are tested; a forced blob column is among
\* the dependents tested, and another blob column and an ETL column are left out.
C19_Witness ==
    /\ pc = "dependents"
    /\ Len(columns) > SmallColumns
    /\ overrides.FORCE_INCLUDE_COLUMNS = <<PlainName(2)>>
    /\ \E c \in Range(columns) : MatchesExcludeRegex(c.name)
    /\ \E i \in 1..Len(todo) :
          /\ Len(todo[i].dependents) = MAX_DEPENDENTS_TESTED
          /\ PlainName(2) \in Range(todo[i].dependents)
          /\ PlainName(4) \notin Range(todo[i].dependents)
          /\ PlainName(4) \notin Range(todo[i].determinant)
          /\ Cardinality({c \in Range(columns) :
                             /\ c.name \notin Range(todo[i].determinant)
                             /\ ~MatchesExcludeRegex(c.name)
                             /\ \/ c.data_type \notin BLOB_TYPES
                                \/ c.name \in Range(overrides.FORCE_INCLUDE_COLUMNS)})
                > MAX_DEPENDENTS_TESTED

----------------------------------------------------------------------------
(* _minimize on its own, for lists of measured FDs in any order.            *)

MaxFds == 3

\* The determinants of a pool <<"A", "B", "C">>.
MinimizeDeterminants == {<<"A">>, <<"B">>, <<"A", "B">>, <<"A", "C">>, <<"A", "B", "C">>}
MinimizeDependents == {"C", "X"}
Measurements == {"clean", "low_coverage", "violated"}

\* An FD as _fd_stats measures it over 100 rows that are all tested
\* ("clean"), of which 10 are tested ("low_coverage"), or of which 5 lie in one
\* violating group of 4 ("violated").
MeasuredFd(determinant, dependent, m) ==
    LET tested_rows == IF m = "low_coverage" THEN 10 ELSE 100
        violating_groups == IF m = "violated" THEN 1 ELSE 0
        violating_rows == IF m = "violated" THEN 5 ELSE 0
    IN  [determinant |-> determinant,
         dependent |-> dependent,
         tested_rows |-> tested_rows,
         coverage_pct |-> Rat(tested_rows * 100, 100),
         total_groups |-> 4,
         violating_groups |-> Some(violating_groups),
         violating_groups_pct |-> Rat(violating_groups * 100, 4),
         violating_rows |-> Some(violating_rows),
         violating_rows_pct |-> Rat(violating_rows * 100, tested_rows),
         sample_violations |-> <<>>]

MeasuredFds ==
    UNION {{MeasuredFd(d, y, m) : d \in {x \in MinimizeDeterminants : y \notin Range(x)},
                                  m \in Measurements} : y \in MinimizeDependents}

InitMinimize ==
    /\ pc = "measured"
    /\ total_rows = 100
    /\ sample_clause = EmptyClause
    /\ NoTable
    /\ todo = <<>>
    /\ keys = <<>>
    /\ \E n \in 0..MaxFds : measured \in [1..n -> MeasuredFds]
    /\ fds = <<>>
    /\ NoAnalysis

\* return self._minimize(fds)
minimize ==
    /\ pc = "measured"
    /\ fds' = _minimize(measured)
    /\ pc' = "discovered"
    /\ UNCHANGED <<total_rows, sample_clause, columns, determinant_pool, table, todo,
                   keys, measured, overrides, normalization>>
    /\ UNCHANGED <<written, run, warnings, exception>>

NextMinimize == minimize
SpecMinimize == InitMinimize /\ [][NextMinimize]_vars

\* C1: the list _minimize returns holds no two FDs with the same dependent where
\* the determinant columns of one are a proper subset of the other's.
C1_NoSupersetAccepted ==
    pc = "discovered" =>
        \A i, j \in 1..Len(fds) :
            ~ /\ Range(fds[i].determinant) \subseteq Range(fds[j].determinant)
              /\ Range(fds[i].determinant) # Range(fds[j].determinant)
              /\ fds[i].dependent = fds[j].dependent

\* Strong (A,B)->X, (A,C)->X and A->X, measured in that order: only A->X is left.
C1_Witness ==
    /\ pc = "discovered"
    /\ Len(measured) = 3
    /\ \A i \in 1..3 : fd_is_strong(measured[i]) /\ measured[i].dependent = "X"
    /\ measured[1].determinant = <<"A", "B">>
    /\ measured[2].determinant = <<"A", "C">>
    /\ measured[3].determinant = <<"A">>
    /\ fds = <<measured[3]>>

----------------------------------------------------------------------------
(* _minimize applied to a list of measured FDs and then to its own result.  *)

InitMinimizeTwice ==
    /\ InitMinimize
    /\ \A i \in 1..Len(measured) : measured[i].tested_rows = 100

\* self._minimize(accepted), for the list that _minimize has just returned
minimize_again ==
    /\ pc = "discovered"
    /\ fds' = _minimize(fds)
    /\ pc' = "minimized"
    /\ UNCHANGED <<total_rows, sample_clause, columns, determinant_pool, table, todo,
                   keys, measured, overrides, normalization>>
    /\ UNCHANGED <<written, run, warnings, exception>>

SpecMinimizeTwice == InitMinimizeTwice /\ [][minimize \/ minimize_again]_vars

\* The FDs of a list that are strong.
StrongOf(list) == {fd \in Range(list) : fd_is_strong(fd)}

\* C23: _minimize loses no dependency: what it returns are strong FDs of its
\* input, none of them twice, and for every strong input FD X -> y it returns
\* an FD X' -> y with X' a subset of X; applied to its own result it returns
\* the same list.
C23_MinimizeLosesNothing ==
    /\ pc \in {"discovered", "minimized"} =>
          /\ Range(fds) \subseteq StrongOf(measured)
          /\ Cardinality(Range(fds)) = Len(fds)
          /\ \A fd \in StrongOf(measured) :
                \E i \in 1..Len(fds) :
                    /\ fds[i].dependent = fd.dependent
                    /\ Range(fds[i].determinant) \subseteq Range(fd.determinant)
    /\ pc = "minimized" => fds = _minimize(measured)

\* Three FDs measured: strong (A, B) -> X, dropped for the strong A -> X, and
\* strong A -> C; the two left are returned again by the second application.
C23_Witness ==
    /\ pc = "minimized"
    /\ Len(measured) = 3
    /\ \A i \in 1..3 : fd_is_strong(measured[i])
    /\ measured[1].determinant = <<"A", "B">> /\ measured[1].dependent = "X"
    /\ measured[2].determinant = <<"A">> /\ measured[2].dependent = "X"
    /\ measured[3].determinant = <<"A">> /\ measured[3].dependent = "C"
    /\ fds = <<measured[3], measured[2]>>

----------------------------------------------------------------------------
(* NormalizationAnalyzer                                                    *)

\* A slip: the first strong candidate is taken, not the first candidate.
working_key_first_strong(forced, candidates, pool) ==
    IF forced # None /\ forced[1] # <<>> THEN forced[1]
    ELSE IF \E i \in 1..Len(candidates) : key_is_strong(candidates[i])
    THEN candidates[CHOOSE i \in 1..Len(candidates) :
                        /\ key_is_strong(candidates[i])
                        /\ \A j \in 1..(i - 1) : ~key_is_strong(candidates[j])].columns
    ELSE IF pool # <<>> THEN Take(pool, 1)
    ELSE <<>>

\* working_key: `if forced` is false for a table without an entry in FORCE_KEY
\* (None) and for an entry that is an empty list.
working_key(forced, candidates, pool) ==
    IF forced # None /\ forced[1] # <<>> THEN forced[1]
    ELSE IF candidates # <<>> THEN candidates[1].columns
    ELSE IF pool # <<>> THEN Take(pool, 1)
    ELSE <<>>

\* A slip: the determinant may be the whole key.
second_nf_subset(list, key_cols) ==
    LET prime_cols == key_cols
        issues[n \in 0..Len(list)] ==
            IF n = 0 THEN <<>>
            ELSE IF key_cols = {} THEN issues[n - 1]
            ELSE IF /\ Cardinality(key_cols) > 1
                    /\ Range(list[n].determinant) \subseteq key_cols
                    /\ list[n].dependent \notin prime_cols
            THEN Append(issues[n - 1], list[n])
            ELSE issues[n - 1]
    IN  issues[Len(list)]

\* The FDs analyze appends to second_nf.
second_nf(list, key_cols) ==
    LET prime_cols == key_cols
        issues[n \in 0..Len(list)] ==
            IF n = 0 THEN <<>>
            ELSE IF key_cols = {} THEN issues[n - 1]
            ELSE IF /\ Cardinality(key_cols) > 1
                    /\ Range(list[n].determinant) \subseteq key_cols
                    /\ Range(list[n].determinant) # key_cols
                    /\ list[n].dependent \notin prime_cols
            THEN Append(issues[n - 1], list[n])
            ELSE issues[n - 1]
    IN  issues[Len(list)]

\* A slip: only determinants without any key column count as 3NF issues.
third_nf_outside_key(list, key_cols) ==
    LET Issue3(fd) ==
            /\ key_cols # {}
            /\ Range(fd.determinant) \cap key_cols = {}
            /\ fd.dependent \notin key_cols
    IN  SelectSeq(list, Issue3)

\* A slip: the dependent may be a prime column.
third_nf_any_dependent(list, key_cols) ==
    LET issues[n \in 0..Len(list)] ==
            IF n = 0 THEN <<>>
            ELSE IF key_cols = {} THEN issues[n - 1]
            ELSE IF ~(key_cols \subseteq Range(list[n].determinant))
            THEN Append(issues[n - 1], list[n])
            ELSE issues[n - 1]
    IN  issues[Len(list)]

\* The FDs analyze appends to third_nf.
third_nf(list, key_cols) ==
    LET prime_cols == key_cols
        issues[n \in 0..Len(list)] ==
            IF n = 0 THEN <<>>
            ELSE IF key_cols = {} THEN issues[n - 1]
            ELSE IF /\ ~(key_cols \subseteq Range(list[n].determinant))
                    /\ list[n].dependent \notin prime_cols
            THEN Append(issues[n - 1], list[n])
            ELSE issues[n - 1]
    IN  issues[Len(list)]

_fd_summary(fd) ==
    [determinant |-> fd.determinant,
     dependent |-> fd.dependent,
     coverage_pct |-> fd.coverage_pct,
     violating_groups_pct |-> fd.violating_groups_pct,
     violating_rows_pct |-> fd.violating_rows_pct]

Summaries(list) == [i \in 1..Len(list) |-> _fd_summary(list[i])]

\* NormalizationAnalyzer(profile, keys, fds).analyze()
analyze ==
    /\ pc = "discovered"
    /\ LET key == working_key(overrides.FORCE_KEY, keys, determinant_pool)
           key_cols == Range(key)
       IN  normalization' =
               [working_key |-> key,
                prime_columns |-> key_cols,
                second_nf_issues |-> Summaries(second_nf(fds, key_cols)),
                third_nf_issues |-> Summaries(third_nf(fds, key_cols))]
    /\ pc' = "analyzed"
    /\ UNCHANGED <<total_rows, sample_clause, columns, determinant_pool, table, todo,
                   keys, measured, fds, overrides>>
    /\ UNCHANGED <<written, run, warnings, exception>>

----------------------------------------------------------------------------
(* The analyzer on its own, for configured keys, candidate lists, pools and *)
(* lists of accepted FDs.                                                   *)

MaxAccepted == 2

AnalyzedColumns == {"A", "B", "C", "X"}
AcceptedFds ==
    UNION {{MeasuredFd(d, y, "clean") : d \in {x \in MinimizeDeterminants : y \notin Range(x)}} :
              y \in AnalyzedColumns}

\* A KeyCandidate measured over 100 rows without NULLs, dups of them in excess.
MeasuredKey(cols, dups) ==
    [columns |-> cols,
     tested_rows |-> 100,
     duplicate_excess_rows |-> dups,
     dup_pct |-> Rat(dups, 100),
     null_rows |-> 0,
     null_pct |-> Rat(0, 100)]

\* Candidate lists as find_candidates leaves them: best-ranked first.
CandidateLists ==
    {<<>>,
     <<MeasuredKey(<<"A">>, 0)>>,
     <<MeasuredKey(<<"A", "B">>, 0), MeasuredKey(<<"A">>, 50)>>,
     <<MeasuredKey(<<"A", "B">>, 50)>>,
     <<MeasuredKey(<<"A", "B">>, 50), MeasuredKey(<<"A", "B", "C">>, 50)>>,
     <<MeasuredKey(<<"A", "B", "C">>, 0)>>}
AnalyzedPools == {<<>>, <<"B">>, <<"C", "A", "B">>}
ForcedKeys == {None, Some(<<>>), Some(<<"B">>), Some(<<"B", "C">>), Some(<<"C", "X">>)}

InitAnalyze ==
    /\ pc = "discovered"
    /\ total_rows = 100
    /\ sample_clause = EmptyClause
    /\ columns = <<>>
    /\ table = <<>>
    /\ determinant_pool \in AnalyzedPools
    /\ todo = <<>>
    /\ keys \in CandidateLists
    /\ measured = <<>>
    /\ \E n \in 0..MaxAccepted : fds \in [1..n -> AcceptedFds]
    /\ \E forced \in ForcedKeys : overrides = [NoOverrides EXCEPT !.FORCE_KEY = forced]
    /\ normalization = NoNormalization
    /\ NoOutput
    /\ NoRun

NextAnalyze == analyze
SpecAnalyze == InitAnalyze /\ [][NextAnalyze]_vars

\* X -> y is a partial dependency on the key columns K.
Partial(fd, K) ==
    /\ Cardinality(K) > 1
    /\ Range(fd.determinant) \subseteq K
    /\ Range(fd.determinant) # K
    /\ fd.dependent \notin K

\* X -> y has a determinant that does not hold the key columns K and a
\* dependent outside K.
Transitive(fd, K) ==
    /\ ~(K \subseteq Range(fd.determinant))
    /\ fd.dependent \notin K

\* C3: analyze reports an accepted FD X -> y as a 2NF issue if and only if the
\* working key has more than one column, X is a proper subset of it and y is
\* not in it; it reports each such FD once and nothing else.
C3_SecondNfIffPartial ==
    pc = "analyzed" =>
        LET K == Range(normalization.working_key)
            issues == normalization.second_nf_issues
        IN  /\ \A i \in 1..Len(fds) :
                  _fd_summary(fds[i]) \in Range(issues) <=> Partial(fds[i], K)
            /\ Range(issues) \subseteq {_fd_summary(fds[i]) : i \in 1..Len(fds)}
            /\ Len(issues) = Cardinality({i \in 1..Len(fds) : Partial(fds[i], K)})

\* Working key (A, B) from the best candidate and the accepted FDs A -> C and
\* (A, B) -> X: exactly one 2NF issue, A -> C.
C3_Witness ==
    /\ pc = "analyzed"
    /\ normalization.working_key = <<"A", "B">>
    /\ Len(fds) = 2
    /\ fds[1].determinant = <<"A", "B">> /\ fds[1].dependent = "X"
    /\ fds[2].determinant = <<"A">> /\ fds[2].dependent = "C"
    /\ Len(normalization.second_nf_issues) = 1
    /\ normalization.second_nf_issues[1].determinant = <<"A">>
    /\ normalization.second_nf_issues[1].dependent = "C"

\* C4: analyze reports an accepted FD X -> y as a 3NF issue if and only if X is
\* not a superset of the working key and y is not in the working key; it
\* reports each such FD once and nothing else, and with an empty working key it
\* reports no issue of either kind.
C4_ThirdNfIffTransitive ==
    pc = "analyzed" =>
        LET K == Range(normalization.working_key)
            issues == normalization.third_nf_issues
        IN  /\ \A i \in 1..Len(fds) :
                  _fd_summary(fds[i]) \in Range(issues) <=> Transitive(fds[i], K)
            /\ Range(issues) \subseteq {_fd_summary(fds[i]) : i \in 1..Len(fds)}
            /\ Len(issues) = Cardinality({i \in 1..Len(fds) : Transitive(fds[i], K)})
            /\ K = {} => /\ normalization.second_nf_issues = <<>>
                         /\ normalization.third_nf_issues = <<>>

\* Working key (A) and the accepted FDs B -> C and B -> A: one 3NF issue,
\* B -> C; B -> A has a prime dependent.
C4_Witness ==
    /\ pc = "analyzed"
    /\ normalization.working_key = <<"A">>
    /\ Len(fds) = 2
    /\ fds[1].determinant = <<"B">> /\ fds[1].dependent = "C"
    /\ fds[2].determinant = <<"B">> /\ fds[2].dependent = "A"
    /\ Len(normalization.third_nf_issues) = 1
    /\ normalization.third_nf_issues[1].determinant = <<"B">>
    /\ normalization.third_nf_issues[1].dependent = "C"

\* C5: the working key in the analysis result is the FORCE_KEY override of the
\* table verbatim if one is configured (an entry that is an empty list
\* configures none); otherwise the columns of the first key candidate, strong or
\* not; otherwise the first column of the determinant pool; otherwise the empty
\* tuple.  The FDs are classified by that same key: prime_columns are its
\* columns and the issues reported are those of C3 and C4 for it.
C5_WorkingKeyPriority ==
    pc = "analyzed" =>
        LET forced == overrides.FORCE_KEY
            key == normalization.working_key
        IN  /\ IF forced # None /\ forced # Some(<<>>) THEN key = forced[1]
               ELSE IF Len(keys) > 0 THEN key = keys[1].columns
               ELSE IF Len(determinant_pool) > 0 THEN key = <<determinant_pool[1]>>
               ELSE key = <<>>
            /\ normalization.prime_columns = Range(key)
            /\ \A i \in 1..Len(fds) :
                  /\ Partial(fds[i], Range(key)) <=>
                        \E k \in 1..Len(normalization.second_nf_issues) :
                            normalization.second_nf_issues[k] = _fd_summary(fds[i])
                  /\ Transitive(fds[i], Range(key)) <=>
                        \E k \in 1..Len(normalization.third_nf_issues) :
                            normalization.third_nf_issues[k] = _fd_summary(fds[i])

\* No override; the first candidate (A, B) is not strong, a strong candidate and
\* a pool with another top column exist: the working key is (A, B), and B -> C is
\* reported against it.
C5_Witness ==
    /\ pc = "analyzed"
    /\ overrides.FORCE_KEY = None
    /\ Len(keys) = 2
    /\ ~key_is_strong(keys[1])
    /\ determinant_pool = <<"C", "A", "B">>
    /\ normalization.working_key = <<"A", "B">>
    /\ \E k \in 1..Len(normalization.second_nf_issues) :
          normalization.second_nf_issues[k].determinant = <<"B">>

----------------------------------------------------------------------------
(* ProposalBuilder                                                          *)

Notes ==
    <<"Review semantics and ensure determinant uniquely identifies dependent attributes.",
      "Validate coverage and row counts before applying any schema change.">>

\* max(0.1, 1 - issue["violating_rows_pct"])
Confidence(violating_rows_pct) ==
    RatMax(Rat(1, 10), Rat(violating_rows_pct[2] - violating_rows_pct[1],
                           violating_rows_pct[2]))

\* Proposal(determinant=..., dependents=[dependent], confidence=..., notes=...)
Proposal(issue) ==
    [determinant |-> issue.determinant,
     dependents |-> <<issue.dependent>>,
     confidence |-> Confidence(issue.violating_rows_pct),
     notes |-> Notes]

\* A slip: the 2NF issues give proposals as well.
build_every_issue(result) ==
    [i \in 1..Len(result.second_nf_issues) |-> Proposal(result.second_nf_issues[i])]
    \o [i \in 1..Len(result.third_nf_issues) |-> Proposal(result.third_nf_issues[i])]

\* ProposalBuilder.build: the loop over normalization.get("third_nf_issues", [])
build(result) ==
    [i \in 1..Len(result.third_nf_issues) |-> Proposal(result.third_nf_issues[i])]

\* proposals = ProposalBuilder(profile, normalization).build()
ProposalBuilder ==
    /\ pc = "analyzed"
    /\ proposals' = build(normalization)
    /\ pc' = "proposed"
    /\ UNCHANGED <<total_rows, sample_clause, columns, determinant_pool, table, todo,
                   keys, measured, fds, overrides, normalization, report>>
    /\ UNCHANGED run
    /\ UNCHANGED <<warnings, exception>>

----------------------------------------------------------------------------
(* The analyzer followed by the proposal builder, as Runner.run calls them. *)

SpecAnalyzeBuild == InitAnalyze /\ [][analyze \/ ProposalBuilder]_vars

\* C22: every FD that analyze reports as a 2NF issue it also reports as a 3NF
\* issue, so build gives a proposal for every 2NF issue.
C22_SecondNfWithinThirdNf ==
    /\ pc \in {"analyzed", "proposed"} =>
          Range(normalization.second_nf_issues) \subseteq Range(normalization.third_nf_issues)
    /\ pc = "proposed" =>
          \A i \in 1..Len(normalization.second_nf_issues) :
              \E j \in 1..Len(proposals) :
                  /\ proposals[j].determinant = normalization.second_nf_issues[i].determinant
                  /\ proposals[j].dependents = <<normalization.second_nf_issues[i].dependent>>

\* Working key (A, B): the 2NF issue A -> C and another 3NF issue that is no
\* 2NF issue, and a proposal for each.
C22_Witness ==
    /\ pc = "proposed"
    /\ normalization.working_key = <<"A", "B">>
    /\ Len(normalization.second_nf_issues) = 1
    /\ normalization.second_nf_issues[1].determinant = <<"A">>
    /\ normalization.second_nf_issues[1].dependent = "C"
    /\ Len(normalization.third_nf_issues) = 2
    /\ Len(proposals) = 2
    /\ \E j \in 1..2 : proposals[j].determinant = <<"A">> /\ proposals[j].dependents = <<"C">>

----------------------------------------------------------------------------
(* The proposal builder on its own, for analysis results as the analyzer    *)
(* writes them: summaries of strong FDs.                                    *)

MaxIssues == 2

IssueDeterminants == {<<"A">>, <<"B">>}
IssueDependents == {"C", "X"}
\* violating_rows_pct of a strong FD: at most FD_MAX_VIOLATING_ROW_PCT.
IssuePcts == {Rat(0, 100), Rat(50, 10000), Rat(100, 10000)}

Issue(determinant, dependent, pct) ==
    [determinant |-> determinant,
     dependent |-> dependent,
     coverage_pct |-> Rat(100, 1),
     violating_groups_pct |-> Rat(0, 1),
     violating_rows_pct |-> pct]

Issues == {Issue(d, y, pct) : d \in IssueDeterminants, y \in IssueDependents, pct \in IssuePcts}
PartialIssues == {Issue(<<"A">>, y, Rat(0, 100)) : y \in IssueDependents}

InitBuild ==
    /\ pc = "analyzed"
    /\ total_rows = 100
    /\ sample_clause = EmptyClause
    /\ NoTable
    /\ NoMeasurements
    /\ overrides = NoOverrides
    /\ \E n \in 0..MaxIssues, m \in 0..(MaxIssues - 1) :
          \E third \in [1..n -> Issues], second \in [1..m -> PartialIssues] :
              normalization = [working_key |-> IF m = 0 THEN <<"K">> ELSE <<"A", "K">>,
                               prime_columns |-> IF m = 0 THEN {"K"} ELSE {"A", "K"},
                               second_nf_issues |-> second,
                               third_nf_issues |-> third]
    /\ NoOutput
    /\ NoRun

NextBuild == ProposalBuilder
SpecBuild == InitBuild /\ [][NextBuild]_vars

C13_ConfidenceFromFraction ==
    pc = "proposed" =>
        \A i \in 1..Len(proposals) :
            LET pct == normalization.third_nf_issues[i].violating_rows_pct
                fraction == Rat(pct[1], pct[2] * 100)
            IN  /\ RatEq(proposals[i].confidence,
                         RatMax(Rat(1, 10), Rat(fraction[2] - fraction[1], fraction[2])))
                /\ Ratio01(proposals[i].confidence)

\* C14: build gives one proposal with type "2NF" for each entry of
\* second_nf_issues and one with type "3NF" for each entry of third_nf_issues.
C14_ProposalPerIssueWithType ==
    pc = "proposed" =>
        /\ Len(proposals) = Len(normalization.second_nf_issues)
                            + Len(normalization.third_nf_issues)
        /\ \A i \in 1..Len(normalization.second_nf_issues) :
              \E k \in 1..Len(proposals) :
                  /\ "type" \in DOMAIN proposals[k]
                  /\ proposals[k].type = "2NF"
                  /\ proposals[k].determinant = normalization.second_nf_issues[i].determinant
        /\ \A i \in 1..Len(normalization.third_nf_issues) :
              \E k \in 1..Len(proposals) :
                  /\ "type" \in DOMAIN proposals[k]
                  /\ proposals[k].type = "3NF"
                  /\ proposals[k].determinant = normalization.third_nf_issues[i].determinant

----------------------------------------------------------------------------
(* ArtifactWriter.write_report                                              *)

NoProposalsLine ==
    <<"- No proposals. Table appears 3NF-compliant under tested constraints.">>

\* The lines under "## Decomposition Proposals".
DecompositionLines(list) ==
    IF list # <<>>
    THEN [i \in 1..Len(list) |->
             <<"- New table", list[i].determinant, list[i].dependents, list[i].confidence,
               list[i].notes>>]
    ELSE <<NoProposalsLine>>

\* self.writer.write_report(table_folder / "report.md", {...})
write_report ==
    /\ pc = "proposed"
    /\ report' = Some([row_count |-> total_rows,
                       determinant_pool |-> determinant_pool,
                       key_candidates |-> Take(keys, 5),
                       accepted |-> fds,
                       working_key |-> normalization.working_key,
                       second_nf_issues |-> Len(normalization.second_nf_issues),
                       third_nf_issues |-> Len(normalization.third_nf_issues),
                       decomposition |-> DecompositionLines(proposals)])
    /\ pc' = "reported"
    /\ UNCHANGED <<total_rows, sample_clause, columns, determinant_pool, table, todo,
                   keys, measured, fds, overrides, normalization, proposals>>
    /\ UNCHANGED run
    /\ UNCHANGED <<warnings, exception>>

----------------------------------------------------------------------------
(* The pipeline of one table from its profile to its report, for tables     *)
(* small enough to be scanned in full, the empty table among them.          *)

PipelineTables == {t \in Tables : RowCount(t) <= FULL_SCAN_MAX_ROWS}
PipelineForcedKeys == {None, Some(<<"A", "B">>)}

InitPipeline ==
    /\ pc = "profiled"
    /\ \E t \in PipelineTables : ProfileOf(t)
    /\ determinant_pool = <<>>
    /\ NoMeasurements
    /\ \E forced \in PipelineForcedKeys :
          overrides = [NoOverrides EXCEPT !.FORCE_KEY = forced]
    /\ normalization = NoNormalization
    /\ NoOutput
    /\ NoRun

NextPipeline ==
    \/ DeterminantSelector
    \/ find_candidates
    \/ discover
    \/ analyze
    \/ ProposalBuilder
    \/ write_report
SpecPipeline == InitPipeline /\ [][NextPipeline]_vars

\* C11: for a table with row count 0 no key candidate is strong, no FD measured
\* is strong and none is accepted, there is no 2NF or 3NF issue and no proposal,
\* and the report says "No proposals".
C11_EmptyTableNoFindings ==
    total_rows = 0 =>
        /\ \A i \in 1..Len(keys) :
              ~ /\ RatLe(keys[i].dup_pct, KEY_MAX_DUP_ROW_PCT)
                /\ RatLe(keys[i].null_pct, KEY_MAX_NULL_ROW_PCT)
        /\ \A i \in 1..Len(measured) :
              ~ /\ RatLe(FD_MIN_COVERAGE_PCT, measured[i].coverage_pct)
                /\ RatLe(measured[i].violating_groups_pct, FD_MAX_VIOLATING_GROUP_PCT)
                /\ RatLe(measured[i].violating_rows_pct, FD_MAX_VIOLATING_ROW_PCT)
        /\ fds = <<>>
        /\ normalization.second_nf_issues = <<>>
        /\ normalization.third_nf_issues = <<>>
        /\ proposals = <<>>
        /\ pc = "reported" => report[1].decomposition = <<NoProposalsLine>>

\* The report of a table with row count 0 for which three key candidates and
\* two FDs were measured.
C11_Witness ==
    /\ total_rows = 0
    /\ pc = "reported"
    /\ Len(keys) = 3
    /\ Len(measured) = 2
    /\ normalization.working_key = keys[1].columns
    /\ report[1].decomposition = <<NoProposalsLine>>

----------------------------------------------------------------------------
(* Runner                                                                   *)

\* re.search(regex, value) for the regexes and names of the runner's model: the
\* empty regex is found in every string.
SearchHits ==
    {<<"^dbo$", "dbo">>, <<"sales", "sales">>, <<"Ord", "Orders">>,
     <<"^Cust", "Customers">>}
Search(regex, value) == regex = "" \/ <<regex, value>> \in SearchHits

\* The truth value Python gives an optional regex and an optional allowlist:
\* None, the empty string and the empty collection are false.
TruthyRegex(x) == x # None /\ x # Some("")
TruthyList(x) == x # None /\ x # Some({})

qualifies(scope_regex, value) ==
    IF scope_regex = None THEN TRUE ELSE Search(scope_regex[1], value)

FqName(schema, tbl) == schema \o "." \o tbl

\* A slip: EXCLUDE_TABLES is not consulted.
_in_scope_tables_kept(schema, tbl) ==
    IF TruthyList(scope.TABLE_ALLOWLIST) /\ FqName(schema, tbl) \notin scope.TABLE_ALLOWLIST[1]
    THEN FALSE
    ELSE IF ~qualifies(scope.INCLUDE_SCHEMAS, schema) THEN FALSE
    ELSE IF ~qualifies(scope.INCLUDE_TABLES, tbl) THEN FALSE
    ELSE IF TruthyRegex(scope.EXCLUDE_SCHEMAS) /\ Search(scope.EXCLUDE_SCHEMAS[1], schema)
    THEN FALSE
    ELSE TRUE

\* Runner._in_scope
_in_scope(schema, tbl) ==
    IF TruthyList(scope.TABLE_ALLOWLIST) /\ FqName(schema, tbl) \notin scope.TABLE_ALLOWLIST[1]
    THEN FALSE
    ELSE IF ~qualifies(scope.INCLUDE_SCHEMAS, schema) THEN FALSE
    ELSE IF ~qualifies(scope.INCLUDE_TABLES, tbl) THEN FALSE
    ELSE IF TruthyRegex(scope.EXCLUDE_SCHEMAS) /\ Search(scope.EXCLUDE_SCHEMAS[1], schema)
    THEN FALSE
    ELSE IF TruthyRegex(scope.EXCLUDE_TABLES) /\ Search(scope.EXCLUDE_TABLES[1], tbl)
    THEN FALSE
    ELSE TRUE

SourceName == "ExampleSQL"

\* A slip: the manifest keeps the latest entry only.
append_manifest_latest(list, entry) == <<entry>>

\* ArtifactWriter.append_manifest
append_manifest(list, entry) == Append(list, entry)

\* The ways the try block of Runner.run can end for a table: profile_table
\* raises AttributeError when the client has no get_rowcount; otherwise a query
\* or a write may raise at any stage, or the block runs to its end.
TryOutcomes ==
    IF "get_rowcount" \notin client THEN {"AttributeError"}
    ELSE {"query_error", "completed"}

\* What the pipeline of a table hands to the manifest and the summary when it
\* completes: profile.row_count, normalization["working_key"], len(fds).
PipelineResults ==
    {[row_count |-> n, working_key |-> k, accepted_fds |-> f] :
        n \in {0, 100}, k \in {<<>>, <<"A">>}, f \in {0, 1}}

\* One pass of the loop `for schema, table in tables` of Runner.run.
audit_table ==
    /\ pc = "run"
    /\ cursor <= Len(tables)
    /\ LET schema == tables[cursor][1]
           tbl == tables[cursor][2]
       IN  IF ~_in_scope(schema, tbl)
           THEN /\ outcomes' = Append(outcomes, "skipped")
                /\ UNCHANGED <<manifest, summary_rows>>
           ELSE \E outcome \in TryOutcomes :
                    /\ outcomes' = Append(outcomes, outcome)
                    /\ IF outcome = "completed"
                       THEN \E result \in PipelineResults :
                                /\ manifest' = append_manifest(manifest,
                                       [source |-> SourceName, schema |-> schema,
                                        table |-> tbl, row_count |-> result.row_count])
                                /\ summary_rows' = Append(summary_rows,
                                       <<SourceName, schema, tbl, result.row_count,
                                         result.working_key, result.accepted_fds>>)
                       ELSE /\ manifest' = append_manifest(manifest,
                                   [source |-> SourceName, schema |-> schema,
                                    table |-> tbl, error |-> outcome])
                            /\ UNCHANGED summary_rows
    /\ cursor' = cursor + 1
    /\ UNCHANGED <<pc, total_rows, sample_clause, columns, determinant_pool, table, todo,
                   keys, measured, fds, overrides, normalization, written, client,
                   scope, tables>>
    /\ UNCHANGED <<warnings, exception>>

\* self.writer.finalize(), after the loops
finalize ==
    /\ pc = "run"
    /\ cursor > Len(tables)
    /\ pc' = "finalized"
    /\ UNCHANGED <<total_rows, sample_clause, columns, determinant_pool, table, todo,
                   keys, measured, fds, overrides, normalization, written, run>>
    /\ UNCHANGED <<warnings, exception>>

----------------------------------------------------------------------------
(* A run of the runner over one source, for scopes and table lists.         *)

MaxTables == 3

\* The tables of the source in the order of list_tables: by schema, then table.
SourceTables ==
    <<<<"dbo", "Customers">>, <<"dbo", "Orders">>, <<"sales", "Customers">>,
      <<"sales", "Orders">>>>

\* The sub-lists of SourceTables of up to MaxTables tables.
TableLists ==
    {SelectSeq(SourceTables, LAMBDA t : t \in chosen) :
        chosen \in {c \in SUBSET Range(SourceTables) : Cardinality(c) <= MaxTables}}

Scopes ==
    [INCLUDE_SCHEMAS : {None, Some(""), Some("^dbo$")},
     EXCLUDE_SCHEMAS : {None, Some(""), Some("sales")},
     INCLUDE_TABLES : {None, Some("Ord")},
     EXCLUDE_TABLES : {None, Some(""), Some("^Cust")},
     TABLE_ALLOWLIST : {None, Some({}), Some({"dbo.Orders"}),
                        Some({"dbo.Orders", "sales.Customers"})}]

\* Runner.run after `tables = metadata.list_tables()`; the client is the
\* SqlServerClient that run constructs.
InitRunner ==
    /\ pc = "run"
    /\ total_rows = 0
    /\ sample_clause = EmptyClause
    /\ NoTable
    /\ NoMeasurements
    /\ overrides = NoOverrides
    /\ normalization = NoNormalization
    /\ NoOutput
    /\ client = SqlServerClient
    /\ scope \in Scopes
    /\ tables \in TableLists
    /\ cursor = 1
    /\ outcomes = <<>>
    /\ manifest = <<>>
    /\ summary_rows = <<>>
    /\ warnings = <<>>
    /\ exception = None

NextRunner == audit_table \/ finalize
SpecRunner == InitRunner /\ [][NextRunner]_vars

\* A scope option is not set: None or empty.
NoRegex(x) == x = None \/ x = Some("")
NoAllowlist(x) == x = None \/ x = Some({})

\* C15: a table passes the scope filter iff (no allowlist or schema.table is in
\* it) and (no include-schema regex or the schema matches) and (no include-table
\* regex or the table matches) and (no exclude-schema regex or the schema does
\* not match) and (no exclude-table regex or the table does not match), an empty
\* option counting as none; with a non-empty allowlist a table outside it never
\* passes.
C15_ScopeFilter ==
    \A i \in 1..Len(outcomes) :
        LET schema == tables[i][1]
            tbl == tables[i][2]
        IN  /\ outcomes[i] # "skipped" <=>
                  /\ NoAllowlist(scope.TABLE_ALLOWLIST)
                        \/ FqName(schema, tbl) \in scope.TABLE_ALLOWLIST[1]
                  /\ NoRegex(scope.INCLUDE_SCHEMAS)
                        \/ Search(scope.INCLUDE_SCHEMAS[1], schema)
                  /\ NoRegex(scope.INCLUDE_TABLES)
                        \/ Search(scope.INCLUDE_TABLES[1], tbl)
                  /\ NoRegex(scope.EXCLUDE_SCHEMAS)
                        \/ ~Search(scope.EXCLUDE_SCHEMAS[1], schema)
                  /\ NoRegex(scope.EXCLUDE_TABLES)
                        \/ ~Search(scope.EXCLUDE_TABLES[1], tbl)
            /\ ~NoAllowlist(scope.TABLE_ALLOWLIST)
                  /\ FqName(schema, tbl) \notin scope.TABLE_ALLOWLIST[1]
                  => outcomes[i] = "skipped"

\* Allowlist {"dbo.Orders"} and an include-table regex that dbo.Orders matches:
\* (dbo, Customers) was skipped, (dbo, Orders) passed, (sales, Orders), which
\* the regexes let through, was skipped.
C15_Witness ==
    /\ scope.TABLE_ALLOWLIST = Some({"dbo.Orders"})
    /\ scope.INCLUDE_TABLES = Some("Ord")
    /\ scope.EXCLUDE_SCHEMAS = None
    /\ tables = <<<<"dbo", "Customers">>, <<"dbo", "Orders">>, <<"sales", "Orders">>>>
    /\ Len(outcomes) = 3
    /\ outcomes[1] = "skipped" /\ outcomes[2] # "skipped" /\ outcomes[3] = "skipped"

\* The indices of the tables iterated so far that are in scope, and the k-th
\* of them.
Audited == {i \in 1..Len(outcomes) : _in_scope(tables[i][1], tables[i][2])}
NthAudited(k) == CHOOSE i \in Audited : Cardinality({j \in Audited : j <= i}) = k
Raised(i) == outcomes[i] \in {"AttributeError", "query_error"}

\* C16: a table that fails does not keep the following tables from being
\* analysed: the manifest holds one entry per in-scope table iterated, in
\* iteration order, an error entry {source, schema, table, error} iff the
\* table's pipeline raised and a {source, schema, table, row_count} entry
\* otherwise; the summary has rows only for tables with a row_count entry; and
\* the run is finalized only after every table was iterated.
C16_ManifestEntryPerTable ==
    /\ Len(outcomes) = cursor - 1
    /\ Len(manifest) = Cardinality(Audited)
    /\ \A k \in 1..Len(manifest) :
          LET i == NthAudited(k)
              entry == manifest[k]
          IN  /\ entry.source = SourceName
              /\ entry.schema = tables[i][1]
              /\ entry.table = tables[i][2]
              /\ DOMAIN entry = {"source", "schema", "table", "error"} <=> Raised(i)
              /\ DOMAIN entry = {"source", "schema", "table", "row_count"} <=> ~Raised(i)
    /\ Len(summary_rows) = Cardinality({i \in Audited : ~Raised(i)})
    /\ \A r \in 1..Len(summary_rows) :
          \E k \in 1..Len(manifest) :
              /\ "row_count" \in DOMAIN manifest[k]
              /\ manifest[k].schema = summary_rows[r][2]
              /\ manifest[k].table = summary_rows[r][3]
    /\ pc = "finalized" => Len(outcomes) = Len(tables)

\* A finished run over three tables: the first is out of scope, the second
\* raised, and the third was analysed all the same; the manifest holds the
\* entries of the second and the third.
C16_Witness ==
    /\ pc = "finalized"
    /\ Len(tables) = 3
    /\ outcomes[1] = "skipped"
    /\ Raised(2)
    /\ outcomes[3] # "skipped"
    /\ Len(manifest) = 2
    /\ manifest[1].table = tables[2][2] /\ manifest[1].schema = tables[2][1]
    /\ manifest[2].table = tables[3][2] /\ manifest[2].schema = tables[3][1]

\* C25: an in-scope table on which every SQL query succeeds goes through the
\* whole pipeline and gets a {source, schema, table, row_count} manifest entry
\* and a summary row, not an error entry: profile_table finds the operation it
\* asks of its client.
C25_SuccessfulTableRecorded ==
    \A k \in 1..Len(manifest) :
        outcomes[NthAudited(k)] # "query_error" =>
            /\ DOMAIN manifest[k] = {"source", "schema", "table", "row_count"}
            /\ \E r \in 1..Len(summary_rows) :
                  /\ summary_rows[r][2] = manifest[k].schema
                  /\ summary_rows[r][3] = manifest[k].table

----------------------------------------------------------------------------
(* Profiler.profile_table, for a client that may or may not offer           *)
(* get_rowcount, over the tables of the key finder.                         *)

\* SELECT COUNT(*) FROM table {sample_clause} WHERE name IS NULL
NullCount(view, name) == SumOf({b \in view : b.row[name] = NULL})
\* APPROX_COUNT_DISTINCT(name) and COUNT(DISTINCT name) leave NULLs out; over the
\* handful of values of these tables the approximation is the exact count.
DistinctCount(view, name) == Cardinality({b.row[name] : b \in view} \ {NULL})
\* SELECT MIN(name), MAX(name): NULL, None in Python, when no value is seen.
MinMax(view, name) ==
    LET seen == {b.row[name] : b \in view} \ {NULL}
    IN  IF seen = {} THEN <<None, None>>
        ELSE <<Some(CHOOSE x \in seen : \A y \in seen : x <= y),
               Some(CHOOSE x \in seen : \A y \in seen : y <= x)>>

\* The ColumnProfile appended at the end of one pass of the column loop.
ProfiledColumn(col, null_count, tested_rows, distinct_count, minmax) ==
    [ColumnProfile(col.name, col.data_type, col.nullable, distinct_count,
                   Some(null_count))
        EXCEPT !.null_pct = Some(IF tested_rows # 0
                                 THEN Rat(null_count * 100, tested_rows)
                                 ELSE Rat(0, 1)),
               !.min_value = minmax[1],
               !.max_value = minmax[2]]

\* An exception that leaves profile_table: the statement that raised it, and the
\* column in whose pass it was raised (None before the column loop).
ProfilerError(step, column) == [step |-> step, column |-> column]

\* What one pass of the column loop can give: a ColumnProfile, or the exception
\* of a query that no handler catches.  The null count (line 309) and the
\* sampled row total (line 310) are outside any try; the approximate distinct
\* count is inside one whose handler runs the COUNT DISTINCT fallback unguarded
\* (lines 318-320); the min/max query is inside one that leaves both None.
ColumnTest(col) ==
    LET views == Views(table, sample_clause)
        is_blob == col.data_type \in BLOB_TYPES
        nulls == {NullCount(v, col.name) : v \in views}
        tested == IF sample_clause = EmptyClause THEN {total_rows}
                  ELSE {SumOf(v) : v \in views}
        distincts == IF is_blob THEN {None}
                     ELSE {Some(DistinctCount(v, col.name)) : v \in views}
        minmaxes == IF is_blob THEN {<<None, None>>}
                    ELSE {MinMax(v, col.name) : v \in views} \cup {<<None, None>>}
    IN  {[profile |-> None, exc |-> Some(ProfilerError("null_count", Some(col.name)))]}
        \cup (IF sample_clause = EmptyClause THEN {}
              ELSE {[profile |-> None,
                     exc |-> Some(ProfilerError("tested_rows", Some(col.name)))]})
        \cup (IF is_blob THEN {}
              ELSE {[profile |-> None,
                     exc |-> Some(ProfilerError("count_distinct_fallback",
                                                Some(col.name)))]})
        \cup {[profile |-> Some(ProfiledColumn(col, n, t, d, m)), exc |-> None] :
                 n \in nulls, t \in tested, d \in distincts, m \in minmaxes}

\* MetadataReader.list_columns: the columns of the table, with the types the
\* catalog gives them.
ColumnTypes == {"int", "xml"}
ColumnsMeta ==
    {[i \in 1..Len(TableColumns) |-> [TableColumns[i] EXCEPT !.data_type = types[i]]] :
        types \in [1..Len(TableColumns) -> ColumnTypes]}

\* profile_table up to its column loop: the row count, the sample clause and
\* the column metadata.
profile_table ==
    /\ pc = "profile_table"
    /\ IF "get_rowcount" \notin client
       THEN /\ exception' = Some(ProfilerError("AttributeError", None))
            /\ pc' = "raised"
            /\ UNCHANGED <<total_rows, sample_clause, todo>>
       ELSE \/ /\ \E step \in {"get_rowcount", "list_columns"} :
                     exception' = Some(ProfilerError(step, None))
               /\ pc' = "raised"
               /\ UNCHANGED <<total_rows, sample_clause, todo>>
            \/ /\ total_rows' = RowCount(table)
               /\ sample_clause' = build_sample_clause(RowCount(table))
               /\ todo' \in ColumnsMeta
               /\ pc' = "profile_column"
               /\ UNCHANGED exception
    /\ UNCHANGED <<columns, determinant_pool, table, keys, measured, fds, overrides,
                   normalization>>
    /\ UNCHANGED <<written, run, warnings>>

\* One pass of the column loop; the pass for the last column returns the
\* TableProfile.
profile_column ==
    /\ pc = "profile_column"
    /\ \E test \in ColumnTest(Head(todo)) :
          IF test.profile = None
          THEN /\ exception' = test.exc
               /\ pc' = "raised"
               /\ UNCHANGED <<columns, todo>>
          ELSE /\ columns' = Append(columns, test.profile[1])
               /\ todo' = Tail(todo)
               /\ pc' = IF Tail(todo) = <<>> THEN "profiled" ELSE "profile_column"
               /\ UNCHANGED exception
    /\ UNCHANGED <<total_rows, sample_clause, determinant_pool, table, keys, measured,
                   fds, overrides, normalization>>
    /\ UNCHANGED <<written, run, warnings>>

\* A client as the source builds it, and one that also offers get_rowcount.
Clients == {SqlServerClient, SqlServerClient \cup {"get_rowcount"}}

InitProfile ==
    /\ pc = "profile_table"
    /\ table \in Tables
    /\ total_rows = 0
    /\ sample_clause = EmptyClause
    /\ columns = <<>>
    /\ determinant_pool = <<>>
    /\ NoMeasurements
    /\ overrides = NoOverrides
    /\ normalization = NoNormalization
    /\ NoOutput
    /\ client \in Clients
    /\ scope = NoScope
    /\ tables = <<>>
    /\ cursor = 1
    /\ outcomes = <<>>
    /\ manifest = <<>>
    /\ summary_rows = <<>>

NextProfile == profile_table \/ profile_column
SpecProfile == InitProfile /\ [][NextProfile]_vars

\* The statements of step 1 of the column loop, and those before the loop.
NullCountStep == {"null_count", "tested_rows"}
BeforeColumns == {"AttributeError", "get_rowcount", "list_columns"}

\* C18: no error in a column's distinct count (approximate or its COUNT DISTINCT
\* fallback) or in its min/max aborts the table; within the column loop only an
\* error of the null-count step leaves profile_table.
C18_OnlyNullCountErrorsAbort ==
    pc = "raised" => exception[1].step \in BeforeColumns \cup NullCountStep

====
